---- MODULE Spec2Model ----
(***************************************************************************)
(* Model of the Photograph image editor: the preview scheduler of          *)
(* src/viewer.rs (one Viewer driven by PhotographApp::update), its LRU     *)
(* preview cache, the generation bump helper, the batch render engine of   *)
(* src/app.rs and its output-path reservation.                             *)
(*                                                                         *)
(* Time is kept as ages: an Option<Instant> field holds None or the number *)
(* of milliseconds elapsed since the instant was taken, saturating at the  *)
(* threshold the code compares that elapsed time to.                       *)
(* u64 generations are kept modulo U64_MODULUS (TLC integers are 32-bit).  *)
(***************************************************************************)
EXTENDS Integers, Sequences, FiniteSets, TLC

VARIABLES
    viewer,     \* the Viewer struct (scheduler-relevant fields)
    workers,    \* preview-processing threads spawned by trigger_process, still running
    loads,      \* preview-load threads spawned by set_image / adaptive reload, still running
    chan,       \* messages sent on Viewer::tx and not yet received by drain
    hist,       \* history (ghost) record: what happened, for stating the properties
    cache_hist, \* history of the preview cache: when each key was last stored or hit
    bump,       \* inputs and result of bump_requested_generation_for_pending_changes
    paths,      \* build_render_jobs: tasks, disk contents, reservation set, jobs built
    render,     \* batch render thread, its pool tasks, the event channel and the owner
    proc        \* image processing: backend selection, pipelines, preview open

vars == <<viewer, workers, loads, chan, hist, cache_hist, bump, paths, render, proc>>

(***************************************************************************)
(* Program constants                                                       *)
(***************************************************************************)
PREVIEW_MAX == 1920
DEBOUNCE == 300
INTERACTIVE_REFRESH == 90
PREVIEW_CACHE_CAPACITY == 24
CHANNEL_BOUND == 8
U64_MODULUS == 65536
None == 0 - 1
CANDIDATE_LIMIT == 10000
STATE_EPS == 1
BLACK == 0

(***************************************************************************)
(* Bounds of the model                                                     *)
(***************************************************************************)
TimeStep == 90
MaxEdits == 3
MaxSwitchOps == 3
MaxZoomChanges == 1
MaxZoomOps == 2
MaxNotifications == 3
NumCacheKeys == 26
MaxCacheOps == 2
MaxTasks == 3
MaxPathCalls == 2
MaxRenderJobs == 2
MaxRenderStarts == 2
MaxDim == 2
CropDenominator == 2
NumThreads == 2
MaxGpuCalls == 3
MaxNameLen == 5
MaxSaves == 2
WakeStep == 45

Paths == {1, 2}
ZoomLevels == {1, 2}
ExposureValues == {0, 1}
\* long edge of the source image as its metadata reports it
OrigMax(path) == 3000 * path

Min(a, b) == IF a < b THEN a ELSE b
Max(a, b) == IF a > b THEN a ELSE b

\* Instant::elapsed() after d more milliseconds
Later(t, d, cap) == IF t = None THEN None ELSE Min(t + d, cap)

DefaultEditState == [exposure |-> 0, rotate |-> 0]

NoKey == [source_signature |-> 0, edit_signature |-> DefaultEditState,
          input_width |-> 0, quality |-> "Final"]
NoPreview == [some |-> FALSE, path |-> 0, cap |-> 0]
NoTexture == [some |-> FALSE, data |-> NoKey]

wrapping_add(g) == (g + 1) % U64_MODULUS

\* source_signature / edit_state_signature: a hash of the path (and file
\* metadata) and of the serialized EditState; equal inputs give equal hashes
source_signature(path) == path
edit_state_signature(state) == state

(***************************************************************************)
(* Viewer::new                                                             *)
(***************************************************************************)
ViewerNew ==
    [current_path |-> 0,
     preview |-> NoPreview,
     edit_state |-> DefaultEditState,
     needs_process |-> FALSE,
     needs_final_process |-> FALSE,
     last_slider_change |-> None,
     last_interactive_process |-> None,
     texture |-> NoTexture,
     zoom |-> 1,
     loading |-> FALSE,
     reloading_preview |-> FALSE,
     processing |-> FALSE,
     requested_generation |-> 0,
     in_flight_generation |-> None,
     source_signature |-> 0,
     preview_max |-> PREVIEW_MAX,
     last_zoom_change |-> None,
     preview_cache |-> {},
     preview_cache_lru |-> << >>]

\* no scheduling step with pending work in this frame
NoTick == [pending |-> FALSE, submitted |-> FALSE, wakeup |-> None,
           final_due |-> None, interactive_due |-> None]

HistNew ==
    [edit_seq |-> 0,            \* number of EditState mutations so far
     image_seq |-> 0,           \* number of effective set_image calls so far
     zoom_seq |-> 0,            \* number of zoom changes so far
     since_edit |-> None,       \* age of the last EditState mutation
     last_edit_slider |-> FALSE,\* the last EditState mutation was a slider drag
     final_in_window |-> FALSE, \* a Final pass ran since the last mutation or preview load
     since_interactive |-> None,\* age of the last Interactive job submission
     reset_after |-> FALSE,     \* a Final pass or a preview load came after it
     events |-> {},             \* what the last frame of the owner did
     receipts |-> << >>,        \* the Processed messages its drain received
     submits |-> << >>,         \* the passes of trigger_process it made
     reloads |-> << >>,         \* the adaptive reloads it started
     superseded |-> {},         \* generations of the jobs in flight at a reload
     wakeup |-> None,           \* delay until the repaint the context has scheduled
     tick |-> NoTick]           \* what the scheduling step of its show_image found

World == [v |-> viewer, workers |-> workers, loads |-> loads, h |-> hist]

(***************************************************************************)
(* Preview cache                                                           *)
(***************************************************************************)
RemoveAt(s, i) ==
    IF i > Len(s) THEN s
    ELSE SubSeq(s, 1, i - 1) \o SubSeq(s, i + 1, Len(s))

Position(s, key) ==
    IF \E i \in 1..Len(s) : s[i] = key
    THEN CHOOSE i \in 1..Len(s) : s[i] = key /\ \A j \in 1..(i - 1) : s[j] # key
    ELSE 0

\* mutant: the key is pushed to the back without removing its old position
touch_preview_cache_key_push_only(self, key) ==
    [self EXCEPT !.preview_cache_lru = Append(@, key)]

touch_preview_cache_key(self, key) ==
    LET idx == Position(self.preview_cache_lru, key)
        removed == IF idx # 0 THEN RemoveAt(self.preview_cache_lru, idx)
                   ELSE self.preview_cache_lru
    IN [self EXCEPT !.preview_cache_lru = Append(removed, key)]

\* mutant: the eviction takes the most recently used key
store_preview_cache_pop_back(self, key) ==
    LET evict == key \notin self.preview_cache
                 /\ Cardinality(self.preview_cache) >= PREVIEW_CACHE_CAPACITY
                 /\ Len(self.preview_cache_lru) > 0
        last == Len(self.preview_cache_lru)
        s1 == IF evict
              THEN [self EXCEPT !.preview_cache = @ \ {self.preview_cache_lru[last]},
                                !.preview_cache_lru = SubSeq(@, 1, last - 1)]
              ELSE self
        s2 == [s1 EXCEPT !.preview_cache = @ \cup {key}]
    IN touch_preview_cache_key(s2, key)

store_preview_cache(self, key) ==
    LET evict == key \notin self.preview_cache
                 /\ Cardinality(self.preview_cache) >= PREVIEW_CACHE_CAPACITY
                 /\ Len(self.preview_cache_lru) > 0
        s1 == IF evict
              THEN [self EXCEPT !.preview_cache = @ \ {Head(self.preview_cache_lru)},
                                !.preview_cache_lru = Tail(@)]
              ELSE self
        s2 == [s1 EXCEPT !.preview_cache = @ \cup {key}]
    IN touch_preview_cache_key(s2, key)

\* cached_preview_image: the viewer after the lookup (a hit touches the key)
cached_preview_image(self, key) ==
    IF key \in self.preview_cache THEN touch_preview_cache_key(self, key) ELSE self

build_preview_cache_key(self, quality) ==
    [source_signature |-> self.source_signature,
     edit_signature |-> edit_state_signature(self.edit_state),
     input_width |-> self.preview.cap,
     quality |-> quality]

(***************************************************************************)
(* Generation bump for edits that arrive while a job is in flight          *)
(***************************************************************************)
\* mutant: the bump does not look at the in-flight stamp
bump_requested_generation_unconditional(processing, needs_process, in_flight_generation, requested_generation) ==
    IF processing /\ needs_process
    THEN wrapping_add(requested_generation)
    ELSE requested_generation

bump_requested_generation_for_pending_changes(processing, needs_process, in_flight_generation, requested_generation) ==
    IF processing /\ needs_process /\ in_flight_generation = requested_generation
    THEN wrapping_add(requested_generation)
    ELSE requested_generation

mark_inflight_stale_if_needed(self) ==
    [self EXCEPT !.requested_generation =
        bump_requested_generation_for_pending_changes(
            self.processing, self.needs_process,
            self.in_flight_generation, self.requested_generation)]

(***************************************************************************)
(* Viewer::set_image                                                       *)
(***************************************************************************)
\* mutant: set_image that does not bump requested_generation
set_image_keeps_generation(w, path) ==
    IF w.v.current_path = path THEN w
    ELSE
      [w EXCEPT
         !.v = [@ EXCEPT
                  !.current_path = path,
                  !.source_signature = source_signature(path),
                  !.preview = NoPreview,
                  !.texture = NoTexture,
                  !.edit_state = DefaultEditState,
                  !.needs_process = FALSE,
                  !.needs_final_process = FALSE,
                  !.last_slider_change = None,
                  !.last_interactive_process = None,
                  !.loading = TRUE,
                  !.reloading_preview = FALSE,
                  !.processing = FALSE,
                  !.in_flight_generation = None,
                  !.zoom = 1,
                  !.preview_max = PREVIEW_MAX,
                  !.last_zoom_change = None],
         !.loads = @ \cup {[path |-> path, cap |-> PREVIEW_MAX, image_seq |-> w.h.image_seq + 1]},
         !.h = [@ EXCEPT !.image_seq = @ + 1,
                         !.since_edit = None,
                         !.last_edit_slider = FALSE,
                         !.final_in_window = FALSE,
                         !.reset_after = TRUE,
                         !.events = @ \cup {"set_image"}]]

set_image(w, path) ==
    IF w.v.current_path = path THEN w
    ELSE
      [w EXCEPT
         !.v = [@ EXCEPT
                  !.current_path = path,
                  !.source_signature = source_signature(path),
                  !.preview = NoPreview,
                  !.texture = NoTexture,
                  !.edit_state = DefaultEditState,
                  !.needs_process = FALSE,
                  !.needs_final_process = FALSE,
                  !.last_slider_change = None,
                  !.last_interactive_process = None,
                  !.loading = TRUE,
                  !.reloading_preview = FALSE,
                  !.processing = FALSE,
                  !.requested_generation = wrapping_add(@),
                  !.in_flight_generation = None,
                  !.zoom = 1,
                  !.preview_max = PREVIEW_MAX,
                  !.last_zoom_change = None],
         !.loads = @ \cup {[path |-> path, cap |-> PREVIEW_MAX, image_seq |-> w.h.image_seq + 1]},
         !.h = [@ EXCEPT !.image_seq = @ + 1,
                         !.since_edit = None,
                         !.last_edit_slider = FALSE,
                         !.final_in_window = FALSE,
                         !.reset_after = TRUE,
                         !.events = @ \cup {"set_image"}]]

(***************************************************************************)
(* Viewer::trigger_process                                                 *)
(***************************************************************************)
\* history of one pass of trigger_process that got past its early returns
SubmitHist(h, quality, hit) ==
    LET early == h.since_edit # None /\ h.since_edit < DEBOUNCE
        soon == h.since_interactive # None /\ h.since_interactive < INTERACTIVE_REFRESH
    IN IF quality = "Final"
       THEN [h EXCEPT
               !.final_in_window = TRUE,
               !.reset_after = TRUE,
               !.events = @ \cup {IF hit THEN "final_hit" ELSE "final_job"}
                            \cup (IF early /\ ~hit THEN {"final_job_early"} ELSE {})
                            \cup (IF early /\ h.last_edit_slider
                                  THEN {"final_early_slider"} ELSE {})
                            \cup (IF h.final_in_window THEN {"second_final"} ELSE {})]
       ELSE IF hit THEN [h EXCEPT !.events = @ \cup {"interactive_hit"}]
       ELSE [h EXCEPT
               !.since_interactive = 0,
               !.reset_after = FALSE,
               !.events = @ \cup {"interactive_job"}
                            \cup (IF early THEN {"interactive_job_early"} ELSE {})
                            \cup (IF soon THEN {"interactive_soon"} ELSE {})
                            \cup (IF soon /\ ~h.reset_after
                                  THEN {"interactive_soon_unreset"} ELSE {})
                            \cup (IF ~soon /\ h.since_interactive # None /\ ~h.reset_after
                                  THEN {"interactive_spaced"} ELSE {})]

\* what one pass of trigger_process did: before and after are the viewer
\* with its workers
Submission(before, after, quality) ==
    LET key == build_preview_cache_key(before.v, quality)
    IN [hit |-> key \in before.v.preview_cache,
        key |-> key,
        requested_before |-> before.v.requested_generation,
        requested_after |-> after.v.requested_generation,
        in_flight_after |-> after.v.in_flight_generation,
        texture_after |-> after.v.texture,
        started |-> {wk.generation : wk \in after.workers \ before.workers}]

trigger_process_pass_hit_stays_in_flight(w, quality, stamp) ==
    LET generation == wrapping_add(w.v.requested_generation)
        s1 == [w.v EXCEPT
                 !.processing = TRUE,
                 !.needs_process = FALSE,
                 !.needs_final_process = (quality = "Interactive"),
                 !.last_interactive_process =
                     IF quality = "Interactive" THEN stamp ELSE None,
                 !.last_slider_change = IF quality = "Final" THEN None ELSE @,
                 !.requested_generation = generation,
                 !.in_flight_generation = generation]
        cache_key == build_preview_cache_key(s1, quality)
        hit == cache_key \in s1.preview_cache
        w1 == IF hit
              THEN [w EXCEPT
                      !.v = [cached_preview_image(s1, cache_key) EXCEPT
                               !.texture = [some |-> TRUE, data |-> cache_key],
                               !.processing = FALSE]]
              ELSE [w EXCEPT
                      !.v = s1,
                      !.workers = @ \cup {[generation |-> generation,
                                           cache_key |-> cache_key,
                                           edit_seq |-> w.h.edit_seq,
                                           image_seq |-> w.h.image_seq]}]
    IN [w1 EXCEPT !.h = [SubmitHist(@, quality, hit) EXCEPT
                           !.submits = Append(@, Submission(w, w1, quality))]]

\* the pass of trigger_process after its early returns; stamp is what it
\* writes to last_interactive_process on an Interactive pass
trigger_process_pass(w, quality, stamp) ==
    LET generation == wrapping_add(w.v.requested_generation)
        s1 == [w.v EXCEPT
                 !.processing = TRUE,
                 !.needs_process = FALSE,
                 !.needs_final_process = (quality = "Interactive"),
                 !.last_interactive_process =
                     IF quality = "Interactive" THEN stamp ELSE None,
                 !.last_slider_change = IF quality = "Final" THEN None ELSE @,
                 !.requested_generation = generation,
                 !.in_flight_generation = generation]
        cache_key == build_preview_cache_key(s1, quality)
        hit == cache_key \in s1.preview_cache
        w1 == IF hit
              THEN [w EXCEPT
                      !.v = [cached_preview_image(s1, cache_key) EXCEPT
                               !.texture = [some |-> TRUE, data |-> cache_key],
                               !.processing = FALSE,
                               !.in_flight_generation = None]]
              ELSE [w EXCEPT
                      !.v = s1,
                      !.workers = @ \cup {[generation |-> generation,
                                           cache_key |-> cache_key,
                                           edit_seq |-> w.h.edit_seq,
                                           image_seq |-> w.h.image_seq]}]
    IN [w1 EXCEPT !.h = [SubmitHist(@, quality, hit) EXCEPT
                           !.submits = Append(@, Submission(w, w1, quality))]]

\* mutant: trigger_process that does not record last_interactive_process
trigger_process_unstamped(w, quality) ==
    IF ~w.v.preview.some THEN w
    ELSE IF w.v.processing THEN w
    ELSE trigger_process_pass(w, quality, None)

trigger_process(w, quality) ==
    IF ~w.v.preview.some THEN w
    ELSE IF w.v.processing THEN w
    ELSE trigger_process_pass(w, quality, 0)

(***************************************************************************)
(* Viewer::drain                                                           *)
(***************************************************************************)
drain_loaded(w, msg) ==
    IF w.v.current_path = msg.path
    THEN [w EXCEPT
            !.v = [@ EXCEPT
                     !.preview = [some |-> TRUE, path |-> msg.path, cap |-> msg.cap],
                     !.loading = FALSE,
                     !.reloading_preview = FALSE,
                     !.needs_process = TRUE,
                     !.needs_final_process = FALSE,
                     !.last_interactive_process = None],
            !.h = [@ EXCEPT !.reset_after = TRUE, !.final_in_window = FALSE,
                            !.events = @ \cup {"loaded"}]]
    ELSE w

drain_load_failed(w, msg) ==
    IF w.v.current_path = msg.path
    THEN [w EXCEPT !.v = [@ EXCEPT !.loading = FALSE, !.reloading_preview = FALSE]]
    ELSE w

\* what one receipt of a Processed message did to the texture and the cache
Receipt(before, after, msg) ==
    [stamp_match |-> msg.generation = before.requested_generation,
     key |-> msg.cache_key,
     cached |-> msg.cache_key \in after.preview_cache,
     texture_before |-> before.texture,
     texture_after |-> after.texture]

drain_processed_always_uploads(w, msg) ==
    LET s1 == store_preview_cache(
                  [w.v EXCEPT !.processing = FALSE, !.in_flight_generation = None],
                  msg.cache_key)
        s2 == [s1 EXCEPT !.texture = [some |-> TRUE, data |-> msg.cache_key]]
    IN [w EXCEPT !.v = s2,
                 !.h = [@ EXCEPT !.events = @ \cup {"upload"},
                                 !.receipts = Append(@, Receipt(w.v, s2, msg))]]

drain_processed(w, msg) ==
    LET s1 == store_preview_cache(
                  [w.v EXCEPT !.processing = FALSE, !.in_flight_generation = None],
                  msg.cache_key)
        s2 == [s1 EXCEPT !.texture = [some |-> TRUE, data |-> msg.cache_key]]
        stale == msg.edit_seq # w.h.edit_seq
        old == msg.image_seq # w.h.image_seq
    IN IF msg.generation # s1.requested_generation
       THEN [w EXCEPT
               !.v = s1,
               !.h = [@ EXCEPT !.events = @ \cup {"discard"}
                                   \cup (IF stale THEN {"stale_discard"} ELSE {})
                                   \cup (IF old THEN {"old_discard"} ELSE {})
                                   \cup (IF msg.generation \in w.h.superseded
                                         THEN {"superseded_discard"} ELSE {}),
                               !.superseded = @ \ {msg.generation},
                               !.receipts = Append(@, Receipt(w.v, s1, msg))]]
       ELSE [w EXCEPT
               !.v = s2,
               !.h = [@ EXCEPT !.events = @ \cup {"upload"}
                                   \cup (IF stale THEN {"stale_upload"} ELSE {})
                                   \cup (IF old THEN {"old_upload"} ELSE {})
                                   \cup (IF msg.generation \in w.h.superseded
                                         THEN {"superseded_upload"} ELSE {}),
                               !.superseded = @ \ {msg.generation},
                               !.receipts = Append(@, Receipt(w.v, s2, msg))]]

drain_msg(w, msg) ==
    CASE msg.type = "Loaded" -> drain_loaded(w, msg)
      [] msg.type = "LoadFailed" -> drain_load_failed(w, msg)
      [] msg.type = "Processed" -> drain_processed(w, msg)

RECURSIVE drain(_, _)
drain(w, msgs) ==
    IF msgs = << >> THEN w
    ELSE drain(drain_msg(w, Head(msgs)), Tail(msgs))

(***************************************************************************)
(* Viewer::show_image: scheduling, adaptive reload, then the zoom input    *)
(***************************************************************************)
\* history: this tick finds a preview, no job in flight and the last change
\* at least DEBOUNCE old
TickHist(w) ==
    IF w.v.preview.some /\ ~w.v.processing
       /\ w.h.since_edit # None /\ w.h.since_edit >= DEBOUNCE
    THEN [w EXCEPT !.h = [@ EXCEPT !.events = @ \cup {"quiet_idle_tick"}]]
    ELSE w

\* mutant: the debounce test takes any recorded slider change as settled
show_image_schedule_no_debounce(w) ==
    LET self == w.v
        work_pending == self.needs_process \/ self.needs_final_process
    IN IF work_pending /\ ~self.processing /\ self.preview.some
       THEN trigger_process(w, "Final")
       ELSE w

\* egui Context::request_repaint_after: the context repaints after the
\* smallest delay requested since the last frame
request_repaint_after(w, delay) ==
    [w EXCEPT !.h = [@ EXCEPT !.wakeup = IF @ = None THEN delay ELSE Min(@, delay)]]

\* Context::request_repaint: repaint as soon as possible
request_repaint(h) == [h EXCEPT !.wakeup = 0]

\* what a scheduling step with pending work found: the delays until the
\* debounce deadline and until the next Interactive pass is allowed
Tick(w, after) ==
    LET self == w.v
    IN [pending |-> TRUE,
        submitted |-> Len(after.h.submits) > Len(w.h.submits),
        wakeup |-> None,
        final_due |-> IF self.last_slider_change = None THEN None
                      ELSE DEBOUNCE - self.last_slider_change,
        interactive_due |-> IF ~self.needs_process \/ self.last_interactive_process = None
                            THEN None
                            ELSE INTERACTIVE_REFRESH - self.last_interactive_process]

show_image_schedule(w) ==
    LET self == w.v
        work_pending == self.needs_process \/ self.needs_final_process
        since_change == self.last_slider_change
        debounce_done == since_change = None \/ since_change >= DEBOUNCE
        interactive_ready == self.last_interactive_process = None
                             \/ self.last_interactive_process >= INTERACTIVE_REFRESH
        until_final == DEBOUNCE - since_change
        w1 == IF debounce_done THEN trigger_process(w, "Final")
              ELSE IF self.needs_process
                   THEN request_repaint_after(
                            IF interactive_ready
                            THEN trigger_process(w, "Interactive")
                            ELSE request_repaint_after(w, INTERACTIVE_REFRESH),
                            Min(until_final, INTERACTIVE_REFRESH))
                   ELSE request_repaint_after(w, until_final)
    IN IF work_pending /\ ~self.processing /\ self.preview.some
       THEN [w1 EXCEPT !.h = [@ EXCEPT !.tick = Tick(w, w1)]]
       ELSE w

\* what the start of one adaptive reload found and did
Reload(w, needed_max, after) ==
    [since_zoom |-> w.v.last_zoom_change,
     needed_max |-> needed_max,
     cap_before |-> w.v.preview_max,
     cap_after |-> after.preview_max,
     busy_before |-> w.v.loading \/ w.v.reloading_preview \/ w.loads # {},
     requested_before |-> w.v.requested_generation,
     requested_after |-> after.requested_generation]

show_image_reload_keeps_generation(w) ==
    LET self == w.v
        needed_max == Min(Max(PREVIEW_MAX * self.zoom, PREVIEW_MAX),
                          OrigMax(self.current_path))
        s1 == [self EXCEPT
                 !.preview_max = needed_max,
                 !.reloading_preview = TRUE,
                 !.last_zoom_change = None,
                 !.in_flight_generation = None]
    IN IF self.last_zoom_change = None THEN w
       ELSE IF self.last_zoom_change < DEBOUNCE THEN w
       ELSE IF needed_max > self.preview_max /\ ~self.loading /\ ~self.reloading_preview
            THEN [w EXCEPT
                    !.v = s1,
                    !.loads = @ \cup {[path |-> self.current_path, cap |-> needed_max,
                                       image_seq |-> w.h.image_seq]},
                    !.h = [@ EXCEPT !.events = @ \cup {"reload"},
                                    !.reloads = Append(@, Reload(w, needed_max, s1)),
                                    !.superseded = @ \cup {wk.generation : wk \in w.workers}]]
            ELSE [w EXCEPT !.v = [@ EXCEPT !.last_zoom_change = None]]

show_image_reload(w) ==
    LET self == w.v
        needed_max == Min(Max(PREVIEW_MAX * self.zoom, PREVIEW_MAX),
                          OrigMax(self.current_path))
        s1 == [self EXCEPT
                 !.preview_max = needed_max,
                 !.reloading_preview = TRUE,
                 !.last_zoom_change = None,
                 !.requested_generation = wrapping_add(@),
                 !.in_flight_generation = None]
    IN IF self.last_zoom_change = None THEN w
       ELSE IF self.last_zoom_change < DEBOUNCE THEN w
       ELSE IF needed_max > self.preview_max /\ ~self.loading /\ ~self.reloading_preview
            THEN [w EXCEPT
                    !.v = s1,
                    !.loads = @ \cup {[path |-> self.current_path, cap |-> needed_max,
                                       image_seq |-> w.h.image_seq]},
                    !.h = [@ EXCEPT !.events = @ \cup {"reload"},
                                    !.reloads = Append(@, Reload(w, needed_max, s1)),
                                    !.superseded = @ \cup {wk.generation : wk \in w.workers}]]
            ELSE [w EXCEPT !.v = [@ EXCEPT !.last_zoom_change = None]]

show_image_zoom(w, zoom) ==
    IF zoom = w.v.zoom THEN w
    ELSE [w EXCEPT !.v = [@ EXCEPT !.zoom = zoom, !.last_zoom_change = 0],
                   !.h = [@ EXCEPT !.zoom_seq = @ + 1]]

\* the adaptive reload is not due yet: come back when it is
show_image_reload_wakeup(w) ==
    IF w.v.last_zoom_change # None /\ w.v.last_zoom_change < DEBOUNCE
    THEN request_repaint_after(w, DEBOUNCE - w.v.last_zoom_change)
    ELSE w

show_image(w, zoom) ==
    LET w1 == [w EXCEPT !.v = mark_inflight_stale_if_needed(@)]
        w2 == show_image_reload(show_image_schedule(TickHist(w1)))
    IN show_image_zoom(show_image_reload_wakeup(w2), zoom)

(***************************************************************************)
(* Viewer::show_controls: one widget interaction per frame                 *)
(***************************************************************************)
EditInputs == {"none", "exposure_slider", "exposure_reset", "rotate_180",
               "reset_transforms"}

\* is the widget there, and would the interaction change the EditState
EditEnabled(state, input, value) ==
    CASE input = "none" -> value = 0
      [] input = "exposure_slider" -> value # state.exposure
      [] input = "exposure_reset" -> value = 0 /\ state.exposure # 0
      [] input = "rotate_180" -> value = 0
      [] input = "reset_transforms" -> value = 0 /\ state.rotate # 0

EditApply(state, input, value) ==
    CASE input = "none" -> state
      [] input = "exposure_slider" -> [state EXCEPT !.exposure = value]
      [] input = "exposure_reset" -> [state EXCEPT !.exposure = 0]
      [] input = "rotate_180" -> [state EXCEPT !.rotate = (@ + 180) % 360]
      [] input = "reset_transforms" -> [state EXCEPT !.rotate = 0]

\* mutant: a control that changes the EditState without setting needs_process
show_controls_forgets_dirty(w, input, value) ==
    IF input = "none" THEN w
    ELSE
      LET slider == input = "exposure_slider"
      IN [w EXCEPT
            !.v = [@ EXCEPT
                     !.edit_state = EditApply(@, input, value),
                     !.last_slider_change = IF slider THEN 0 ELSE None],
            !.h = [@ EXCEPT
                     !.edit_seq = @ + 1,
                     !.since_edit = 0,
                     !.last_edit_slider = slider,
                     !.final_in_window = FALSE,
                     !.events = @ \cup {IF slider THEN "slider_edit" ELSE "button_edit"}]]

show_controls(w, input, value) ==
    IF input = "none" THEN w
    ELSE
      LET slider == input = "exposure_slider"
      IN [w EXCEPT
            !.v = [@ EXCEPT
                     !.edit_state = EditApply(@, input, value),
                     !.needs_process = TRUE,
                     !.last_slider_change = IF slider THEN 0 ELSE None],
            !.h = [@ EXCEPT
                     !.edit_seq = @ + 1,
                     !.since_edit = 0,
                     !.last_edit_slider = slider,
                     !.final_in_window = FALSE,
                     !.events = @ \cup {IF slider THEN "slider_edit" ELSE "button_edit"}]]

(***************************************************************************)
(* PhotographApp::update: one frame of the owner thread                    *)
(***************************************************************************)
\* the frame has run: egui repaints once more after a frame that received
\* input events
end_frame(w, input_events) ==
    LET h == IF input_events THEN request_repaint(w.h) ELSE w.h
    IN [w EXCEPT !.h = [h EXCEPT !.tick = [@ EXCEPT !.wakeup = h.wakeup]]]

update(w, msgs, path, zoom, input, value) ==
    LET w1 == drain([w EXCEPT !.h = [@ EXCEPT !.events = {}, !.receipts = << >>, !.submits = << >>,
                                            !.reloads = << >>, !.wakeup = None,
                                            !.tick = NoTick]], msgs)
        w2 == IF path = 0 THEN w1 ELSE set_image(w1, path)
        w3 == show_image(w2, zoom)
    IN end_frame(show_controls(w3, input, value),
                 path # 0 \/ zoom # w.v.zoom \/ input # "none")

Update(path, zoom, input, value) ==
    LET w == update(World, chan, path, zoom, input, value)
    IN /\ viewer' = w.v
       /\ workers' = w.workers
       /\ loads' = w.loads
       /\ hist' = w.h
       /\ chan' = << >>
       /\ UNCHANGED <<cache_hist, bump, paths, render, proc>>

\* a frame without user input
Frame ==
    /\ viewer.current_path # 0
    /\ Update(0, viewer.zoom, "none", 0)

\* the browser selection opens a path in a new viewer
OpenImage ==
    \E path \in Paths :
        /\ viewer.current_path = 0
        /\ Update(path, 1, "none", 0)

\* set_image with another path on a viewer that shows one
SwitchImage ==
    \E path \in Paths :
        /\ viewer.current_path # 0
        /\ path # viewer.current_path
        /\ hist.image_seq + hist.edit_seq < MaxSwitchOps
        /\ Update(path, 1, "none", 0)

\* the user changes the zoom level in the viewport or the status bar
ZoomChange ==
    \E zoom \in ZoomLevels :
        /\ viewer.current_path # 0
        /\ zoom # viewer.zoom
        /\ hist.zoom_seq < MaxZoomChanges
        /\ hist.zoom_seq + hist.edit_seq < MaxZoomOps
        /\ Update(0, zoom, "none", 0)

\* the user works one control of the tools window
EditUpTo(ops, max) ==
    \E input \in EditInputs \ {"none"}, value \in ExposureValues :
        /\ viewer.current_path # 0
        /\ ops < max
        /\ EditEnabled(viewer.edit_state, input, value)
        /\ Update(0, viewer.zoom, input, value)

Edit == EditUpTo(hist.edit_seq, MaxEdits)

\* an edit where set_image calls and edits share one budget of operations
SwitchEdit == EditUpTo(hist.image_seq + hist.edit_seq, MaxSwitchOps)
ZoomEdit == EditUpTo(hist.zoom_seq + hist.edit_seq, MaxZoomOps)

(***************************************************************************)
(* Background threads                                                      *)
(***************************************************************************)
Msg(type, path, cap, generation, cache_key, edit_seq, image_seq) ==
    [type |-> type, path |-> path, cap |-> cap, generation |-> generation,
     cache_key |-> cache_key, edit_seq |-> edit_seq, image_seq |-> image_seq]

\* the thread of trigger_process finishes and sends Processed
WorkerDone ==
    \E job \in workers :
        /\ Len(chan) < CHANNEL_BOUND
        /\ workers' = workers \ {job}
        /\ chan' = Append(chan, Msg("Processed", 0, 0, job.generation, job.cache_key,
                                    job.edit_seq, job.image_seq))
        /\ hist' = request_repaint(hist)
        /\ UNCHANGED <<viewer, loads, cache_hist, bump, paths, render, proc>>

\* the thread of set_image / adaptive reload finishes and sends Loaded or LoadFailed
LoadDone ==
    \E ld \in loads, type \in {"Loaded", "LoadFailed"} :
        /\ Len(chan) < CHANNEL_BOUND
        /\ loads' = loads \ {ld}
        /\ chan' = Append(chan, Msg(type, ld.path, ld.cap, 0, NoKey, 0, ld.image_seq))
        /\ hist' = request_repaint(hist)
        /\ UNCHANGED <<viewer, workers, cache_hist, bump, paths, render, proc>>

\* step milliseconds pass
AdvanceBy(step) ==
    /\ viewer' = [viewer EXCEPT
                    !.last_slider_change = Later(@, step, DEBOUNCE),
                    !.last_interactive_process = Later(@, step, INTERACTIVE_REFRESH),
                    !.last_zoom_change = Later(@, step, DEBOUNCE)]
    /\ hist' = [hist EXCEPT
                  !.since_edit = Later(@, step, DEBOUNCE),
                  !.since_interactive = Later(@, step, INTERACTIVE_REFRESH),
                  !.wakeup = IF @ = None THEN None ELSE Max(@ - step, 0)]
    /\ UNCHANGED <<workers, loads, chan, cache_hist, bump, paths, render, proc>>

\* TimeStep milliseconds pass
Advance == AdvanceBy(TimeStep)

(***************************************************************************)
(* Specification of one viewer                                             *)
(***************************************************************************)
BumpIdle == [processing |-> FALSE, needs_process |-> FALSE,
             in_flight_generation |-> None, requested_generation |-> 0,
             start |-> 0, calls |-> 0, pending_calls |-> 0, bumps |-> 0]
CacheHistIdle == [clock |-> 0, last_use |-> << >>, ops |-> 0, op |-> "none",
                  key |-> NoKey, before |-> {}, before_use |-> << >>]
NoCall == [stem |-> << >>, path |-> << >>, reserved_before |-> {}]
PathsIdle == [disk |-> [files |-> {}, dense |-> {}], tasks |-> << >>, reserved |-> {},
              jobs |-> << >>, built |-> FALSE, calls |-> 0, last |-> NoCall]
ProcIdle == [op |-> "none"]

\* PhotographApp::new: no batch, no receiver; the fields of the render thread
\* (jobs, the atomics, first_error, the channel) exist once a batch is started
RenderIdle == [render_in_progress |-> FALSE, render_total |-> 0, render_done |-> 0,
               render_ok |-> 0, render_failed |-> 0, render_current |-> 0,
               render_status |-> "", render_rx |-> FALSE,
               thread |-> "none", total |-> 0, pc |-> << >>, local |-> << >>,
               done |-> 0, ok |-> 0, failed |-> 0, first_error |-> 0,
               events |-> << >>, sent |-> << >>, starts |-> 0, dir_created |-> FALSE,
               outcome |-> << >>, error_order |-> << >>, invalid_call |-> FALSE]

InitViewer ==
    /\ viewer = ViewerNew
    /\ workers = {}
    /\ loads = {}
    /\ chan = << >>
    /\ hist = HistNew

Init ==
    /\ InitViewer
    /\ cache_hist = CacheHistIdle
    /\ bump = BumpIdle
    /\ paths = PathsIdle
    /\ render = RenderIdle
    /\ proc = ProcIdle

\* one viewer as PhotographApp drives it: one image, edits, frames
Next ==
    \/ Frame
    \/ OpenImage
    \/ Edit
    \/ WorkerDone
    \/ LoadDone
    \/ Advance

Spec == Init /\ [][Next]_vars

\* the frame loop of eframe: without input events a frame runs when the
\* repaint the context has scheduled is due
FrameDue ==
    /\ hist.wakeup = 0
    /\ Frame

\* WakeStep milliseconds pass
Elapse == AdvanceBy(WakeStep)

NextLive ==
    \/ FrameDue
    \/ OpenImage
    \/ Edit
    \/ WorkerDone
    \/ LoadDone
    \/ Elapse

\* the event loop runs a due frame, threads finish, time passes
SpecLive ==
    /\ Init
    /\ [][NextLive]_vars
    /\ WF_vars(FrameDue)
    /\ WF_vars(WorkerDone)
    /\ WF_vars(LoadDone)
    /\ WF_vars(Elapse)

\* the Viewer interface with set_image called again on a viewer that shows an image
NextSwitch ==
    \/ Frame
    \/ OpenImage
    \/ SwitchImage
    \/ SwitchEdit
    \/ WorkerDone
    \/ LoadDone
    \/ Advance

SpecSwitch == Init /\ [][NextSwitch]_vars

\* one image with zoom changes and the adaptive preview reload
NextZoom ==
    \/ Frame
    \/ OpenImage
    \/ ZoomChange
    \/ ZoomEdit
    \/ WorkerDone
    \/ LoadDone
    \/ Advance

SpecZoom == Init /\ [][NextZoom]_vars

(***************************************************************************)
(* bump_requested_generation_for_pending_changes on its own: the inputs    *)
(* are drawn from bounded sets, the in-flight stamp stays what it is while *)
(* notifications arrive and pending changes come and go                    *)
(***************************************************************************)
Generations == {0, 1, 2, U64_MODULUS - 2, U64_MODULUS - 1}

InitBump ==
    /\ viewer = ViewerNew
    /\ workers = {}
    /\ loads = {}
    /\ chan = << >>
    /\ hist = HistNew
    /\ cache_hist = CacheHistIdle
    /\ paths = PathsIdle
    /\ render = RenderIdle
    /\ proc = ProcIdle
    /\ \E processing \in BOOLEAN, needs_process \in BOOLEAN,
          in_flight \in Generations \cup {None}, requested \in Generations :
         bump = [processing |-> processing, needs_process |-> needs_process,
                 in_flight_generation |-> in_flight, requested_generation |-> requested,
                 start |-> requested, calls |-> 0, pending_calls |-> 0, bumps |-> 0]

\* one call, as mark_inflight_stale_if_needed makes it
Notify ==
    LET requested == bump_requested_generation_for_pending_changes(
                         bump.processing, bump.needs_process,
                         bump.in_flight_generation, bump.requested_generation)
    IN /\ bump.calls < MaxNotifications
       /\ bump' = [bump EXCEPT
                     !.requested_generation = requested,
                     !.calls = @ + 1,
                     !.pending_calls = IF bump.needs_process THEN @ + 1 ELSE @,
                     !.bumps = IF requested # bump.requested_generation THEN @ + 1 ELSE @]
       /\ UNCHANGED <<viewer, workers, loads, chan, hist, cache_hist, paths, render, proc>>

\* an edit sets needs_process, or nothing is pending any more
PendingChange ==
    /\ bump' = [bump EXCEPT !.needs_process = ~@]
    /\ UNCHANGED <<viewer, workers, loads, chan, hist, cache_hist, paths, render, proc>>

NextBump == Notify \/ PendingChange

SpecBump == InitBump /\ [][NextBump]_vars

\* C6: while one job is in flight, any number of pending-change notifications
\* bump requested_generation exactly once, to the in-flight stamp + 1
\* (wrapping), and never when no job is processing
C6_BumpOnce ==
    LET stamp == bump.in_flight_generation
        next == IF stamp = U64_MODULUS - 1 THEN 0 ELSE stamp + 1
    IN /\ bump.bumps <= 1
       /\ bump.bumps = 1 => /\ bump.processing
                            /\ stamp = bump.start
                            /\ bump.requested_generation = next
       /\ bump.bumps = 0 => bump.requested_generation = bump.start
       /\ (bump.processing /\ stamp = bump.start /\ bump.pending_calls >= 1)
              => bump.bumps = 1
       /\ ~bump.processing => bump.bumps = 0

C6_Witness ==
    /\ bump.processing
    /\ bump.pending_calls >= 2
    /\ bump.bumps = 1
    /\ bump.start = U64_MODULUS - 1
    /\ bump.requested_generation = 0

(***************************************************************************)
(* The preview cache on its own: a viewer whose cache already holds the    *)
(* Final previews of the first n sources, stored in that order, then       *)
(* stores (drain of a Processed result) and lookups (trigger_process)      *)
(***************************************************************************)
CacheKey(i) == [source_signature |-> i, edit_signature |-> DefaultEditState,
                input_width |-> PREVIEW_MAX, quality |-> "Final"]
CacheKeys == {CacheKey(i) : i \in 1..NumCacheKeys}
CacheFill == {0, PREVIEW_CACHE_CAPACITY - 1, PREVIEW_CACHE_CAPACITY}

InitCache ==
    /\ workers = {}
    /\ loads = {}
    /\ chan = << >>
    /\ hist = HistNew
    /\ bump = BumpIdle
    /\ paths = PathsIdle
    /\ render = RenderIdle
    /\ proc = ProcIdle
    /\ \E n \in CacheFill :
         /\ viewer = [ViewerNew EXCEPT
                        !.preview_cache = {CacheKey(i) : i \in 1..n},
                        !.preview_cache_lru = [i \in 1..n |-> CacheKey(i)]]
         /\ cache_hist = [CacheHistIdle EXCEPT
                            !.clock = n,
                            !.last_use = [k \in CacheKeys |->
                                             IF k.source_signature <= n
                                             THEN k.source_signature ELSE 0]]

CacheOp(op, key, after) ==
    /\ cache_hist.ops < MaxCacheOps
    /\ viewer' = after
    /\ cache_hist' = [clock |-> cache_hist.clock + 1,
                      last_use |-> IF key \in after.preview_cache
                                   THEN [cache_hist.last_use EXCEPT
                                            ![key] = cache_hist.clock + 1]
                                   ELSE cache_hist.last_use,
                      ops |-> cache_hist.ops + 1,
                      op |-> op,
                      key |-> key,
                      before |-> viewer.preview_cache,
                      before_use |-> cache_hist.last_use]
    /\ UNCHANGED <<workers, loads, chan, hist, bump, paths, render, proc>>

CacheStore == \E key \in CacheKeys : CacheOp("store", key, store_preview_cache(viewer, key))

CacheLookup == \E key \in CacheKeys : CacheOp("lookup", key, cached_preview_image(viewer, key))

NextCache == CacheStore \/ CacheLookup

SpecCache == InitCache /\ [][NextCache]_vars

\* C7: the preview cache never holds more than 24 entries; an entry leaves
\* it only when a new key is stored into a full cache, and the entry that
\* leaves is the one stored or hit least recently
C7_CacheBoundedLru ==
    LET before == cache_hist.before
        evicted == before \ viewer.preview_cache
        oldest == {k \in before : \A o \in before :
                       cache_hist.before_use[k] <= cache_hist.before_use[o]}
        full_store == /\ cache_hist.op = "store"
                      /\ cache_hist.key \notin before
                      /\ Cardinality(before) = PREVIEW_CACHE_CAPACITY
    IN /\ Cardinality(viewer.preview_cache) <= PREVIEW_CACHE_CAPACITY
       /\ IF full_store
          THEN Cardinality(oldest) = 1 /\ evicted = oldest
          ELSE evicted = {}
       /\ cache_hist.op = "store" => cache_hist.key \in viewer.preview_cache

\* a lookup hit on the oldest key, then a store into the full cache: the
\* key that was hit stays and the next oldest leaves
C7_Witness ==
    /\ cache_hist.op = "store"
    /\ Cardinality(cache_hist.before) = PREVIEW_CACHE_CAPACITY
    /\ cache_hist.key \notin cache_hist.before
    /\ CacheKey(1) \in viewer.preview_cache
    /\ CacheKey(2) \notin viewer.preview_cache
    /\ CacheKey(2) \in cache_hist.before

(***************************************************************************)
(* Output paths of a render batch.  A file name is a sequence of tokens:   *)
(* the stem's tokens, then the number N of "stem-N" or FinalSuffix for     *)
(* "stem-final"; the extension is the same for every job of a batch.  The  *)
(* stem <<1, 2>> is the source "A-2", whose plain name is the second       *)
(* candidate of the stem <<1>>.  The output directory is disk.files plus,  *)
(* for every stem in disk.dense, all of stem, stem-2 .. stem-9999.         *)
(***************************************************************************)
FinalSuffix == 0
Stems == {<<1>>, <<2>>, <<1, 2>>}
DiskFiles == {<<1>>, <<1, 2>>, <<1, FinalSuffix>>}
DenseStems == {<<1>>}

base(stem) == stem
candidate(stem, n) == Append(stem, n)
fallback(stem) == Append(stem, FinalSuffix)

\* Path::exists
path_exists(disk, path) ==
    \/ path \in disk.files
    \/ \E stem \in disk.dense :
         \/ path = base(stem)
         \/ /\ Len(path) = Len(stem) + 1
            /\ SubSeq(path, 1, Len(stem)) = stem
            /\ path[Len(path)] \in 2..(CANDIDATE_LIMIT - 1)

\* mutant: only the reservation set is consulted
output_path_available_ignores_disk(path, reserved, disk) ==
    path \notin reserved

output_path_available(path, reserved, disk) ==
    path \notin reserved /\ ~path_exists(disk, path)

\* the chosen path and the reservation set after the call
build_output_path(stem, reserved, disk) ==
    LET free(n) == output_path_available(candidate(stem, n), reserved, disk)
        path == IF output_path_available(base(stem), reserved, disk)
                THEN base(stem)
                ELSE IF \E n \in 2..(CANDIDATE_LIMIT - 1) : free(n)
                THEN candidate(stem, CHOOSE n \in 2..(CANDIDATE_LIMIT - 1) :
                                        free(n) /\ \A m \in 2..(n - 1) : ~free(m))
                ELSE fallback(stem)
    IN [path |-> path, reserved |-> reserved \cup {path}]

RECURSIVE map_tasks(_, _, _)
map_tasks(tasks, reserved, disk) ==
    IF tasks = << >> THEN << >>
    ELSE LET built == build_output_path(Head(tasks), reserved, disk)
         IN <<built.path>> \o map_tasks(Tail(tasks), built.reserved, disk)

build_render_jobs(tasks, disk) == map_tasks(tasks, {}, disk)

TaskLists == UNION {[1..n -> Stems] : n \in 0..MaxTasks}

InitPaths ==
    /\ viewer = ViewerNew
    /\ workers = {}
    /\ loads = {}
    /\ chan = << >>
    /\ hist = HistNew
    /\ cache_hist = CacheHistIdle
    /\ bump = BumpIdle
    /\ render = RenderIdle
    /\ proc = ProcIdle
    /\ \E tasks \in TaskLists, files \in SUBSET DiskFiles, dense \in SUBSET DenseStems :
         paths = [PathsIdle EXCEPT !.disk = [files |-> files, dense |-> dense],
                                   !.tasks = tasks]

\* the job list of a batch
BuildRenderJobs ==
    /\ paths.tasks # << >>
    /\ ~paths.built
    /\ paths' = [paths EXCEPT !.jobs = build_render_jobs(paths.tasks, paths.disk),
                              !.built = TRUE]
    /\ UNCHANGED <<viewer, workers, loads, chan, hist, cache_hist, bump, render, proc>>

\* one call of build_output_path on a reservation set that earlier calls filled
BuildOutputPath ==
    /\ paths.tasks = << >>
    /\ paths.calls < MaxPathCalls
    /\ \E stem \in Stems :
         LET built == build_output_path(stem, paths.reserved, paths.disk)
         IN paths' = [paths EXCEPT !.reserved = built.reserved,
                                   !.calls = @ + 1,
                                   !.last = [stem |-> stem, path |-> built.path,
                                             reserved_before |-> paths.reserved]]
    /\ UNCHANGED <<viewer, workers, loads, chan, hist, cache_hist, bump, render, proc>>

NextPaths == BuildRenderJobs \/ BuildOutputPath

SpecPaths == InitPaths /\ [][NextPaths]_vars

\* C8: the output paths of a batch are pairwise distinct and none of them is
\* a file that was on disk when the batch was built, for every task list
\* and every set of files on disk
C8_OutputPathsDistinct ==
    paths.built =>
        /\ \A i, j \in 1..Len(paths.jobs) : i # j => paths.jobs[i] # paths.jobs[j]
        /\ \A i \in 1..Len(paths.jobs) : ~path_exists(paths.disk, paths.jobs[i])

\* C9: build_output_path returns the first candidate of stem, stem-2, ..,
\* stem-9999 that is neither reserved nor on disk, and stem-final only when
\* none of them is free; the returned path is reserved afterwards
C9_FirstFreeCandidate ==
    LET stem == paths.last.stem
        path == paths.last.path
        name(n) == IF n = 1 THEN stem ELSE Append(stem, n)
        taken(n) == \/ name(n) \in paths.last.reserved_before
                    \/ path_exists(paths.disk, name(n))
        numbers == 1..(CANDIDATE_LIMIT - 1)
    IN paths.calls > 0 =>
        /\ path \in paths.reserved
        /\ \/ path = Append(stem, FinalSuffix)
           \/ \E n \in numbers : path = name(n)
        /\ \A n \in numbers :
              path = name(n) => ~taken(n) /\ \A m \in 1..(n - 1) : taken(m)
        /\ path = Append(stem, FinalSuffix) => \A n \in numbers : taken(n)

\* the plain name is on disk and the second candidate was reserved by the
\* call before: the call returns stem-3
C9_Witness ==
    /\ paths.calls = 2
    /\ paths.last.stem = <<1>>
    /\ <<1>> \in paths.disk.files
    /\ <<1, 2>> \in paths.last.reserved_before
    /\ paths.last.path = <<1, 3>>

(***************************************************************************)
(* Batch render: start_render_job, the render thread with its pool jobs    *)
(* (one position per job, one step per atomic operation or send), and the  *)
(* owner's poll_render_events.  Jobs are numbered 1..total; first_error is *)
(* the number of the job whose message is kept, 0 for None.  render.sent   *)
(* is the history of every send on the batch's channel.                    *)
(***************************************************************************)
\* the locals of one call of the closure; wrote is the value its own
\* fetch_add left in the ok or failed counter
NoLocal == [done_now |-> 0, ok_now |-> 0, failed_now |-> 0, wrote |-> 0]

\* mutant: the output directory is created before the task list is looked at
start_render_job_mkdir_first(r, output_empty, resize_enabled, resize_long_edge, tasks, mkdir_ok) ==
    IF output_empty
    THEN [r EXCEPT !.render_status = "Output path is empty"]
    ELSE IF resize_enabled /\ resize_long_edge = 0
    THEN [r EXCEPT !.render_status = "Resize long edge must be greater than 0"]
    ELSE IF ~mkdir_ok
    THEN [r EXCEPT !.render_status = "Failed to create output directory"]
    ELSE IF tasks = 0
    THEN [r EXCEPT !.render_status = "No open images to render", !.dir_created = TRUE]
    ELSE [r EXCEPT !.dir_created = TRUE,
                   !.thread = "running",
                   !.total = tasks,
                   !.pc = [j \in 1..tasks |-> "queued"],
                   !.local = [j \in 1..tasks |-> NoLocal],
                   !.done = 0, !.ok = 0, !.failed = 0, !.first_error = 0,
                   !.events = << >>, !.sent = << >>,
                   !.outcome = [j \in 1..tasks |-> "none"], !.error_order = << >>,
                   !.render_in_progress = TRUE,
                   !.render_total = tasks,
                   !.render_done = 0, !.render_ok = 0, !.render_failed = 0,
                   !.render_current = 0,
                   !.render_status = "Render started...",
                   !.render_rx = TRUE]

start_render_job(r, output_empty, resize_enabled, resize_long_edge, tasks, mkdir_ok) ==
    IF output_empty
    THEN [r EXCEPT !.render_status = "Output path is empty"]
    ELSE IF resize_enabled /\ resize_long_edge = 0
    THEN [r EXCEPT !.render_status = "Resize long edge must be greater than 0"]
    ELSE IF tasks = 0
    THEN [r EXCEPT !.render_status = "No open images to render"]
    ELSE IF ~mkdir_ok
    THEN [r EXCEPT !.render_status = "Failed to create output directory"]
    ELSE [r EXCEPT !.dir_created = TRUE,
                   !.thread = "running",
                   !.total = tasks,
                   !.pc = [j \in 1..tasks |-> "queued"],
                   !.local = [j \in 1..tasks |-> NoLocal],
                   !.done = 0, !.ok = 0, !.failed = 0, !.first_error = 0,
                   !.events = << >>, !.sent = << >>,
                   !.outcome = [j \in 1..tasks |-> "none"], !.error_order = << >>,
                   !.render_in_progress = TRUE,
                   !.render_total = tasks,
                   !.render_done = 0, !.render_ok = 0, !.render_failed = 0,
                   !.render_current = 0,
                   !.render_status = "Render started...",
                   !.render_rx = TRUE]

\* an input that start_render_job does not read on the path its other inputs
\* select is taken at one value: the long edge without resize, and everything
\* after a check that returns early
RenderInputs(output_empty, resize_enabled, resize_long_edge, tasks, mkdir_ok) ==
    /\ ~resize_enabled => resize_long_edge = 3000
    /\ (output_empty \/ (resize_enabled /\ resize_long_edge = 0))
          => (tasks = 0 /\ mkdir_ok)
    /\ output_empty => ~resize_enabled

\* the Render button is enabled with an open viewer and no batch in progress
StartRenderJob ==
    /\ ~render.render_in_progress
    /\ render.starts < MaxRenderStarts
    /\ \E output_empty \in BOOLEAN, resize_enabled \in BOOLEAN, resize_long_edge \in {0, 3000},
          tasks \in 0..MaxRenderJobs, mkdir_ok \in BOOLEAN :
         /\ RenderInputs(output_empty, resize_enabled, resize_long_edge, tasks, mkdir_ok)
         /\ render' = [start_render_job(render, output_empty, resize_enabled,
                                     resize_long_edge, tasks, mkdir_ok)
                       EXCEPT !.starts = @ + 1,
                              !.invalid_call = \/ output_empty
                                               \/ resize_enabled /\ resize_long_edge = 0
                                               \/ tasks = 0]
    /\ UNCHANGED <<viewer, workers, loads, chan, hist, cache_hist, bump, paths, proc>>

Send(r, event) == [r EXCEPT !.events = Append(@, event), !.sent = Append(@, event)]

JobAt(j, pc) == render.thread = "running" /\ j \in 1..render.total /\ render.pc[j] = pc

\* render_single_image returned Ok: ok.fetch_add(1)
JobRenderOk(j) ==
    /\ JobAt(j, "queued")
    /\ render' = [render EXCEPT !.ok = @ + 1, !.pc[j] = "counted", !.outcome[j] = "ok",
                                !.local[j].wrote = render.ok + 1]
    /\ UNCHANGED <<viewer, workers, loads, chan, hist, cache_hist, bump, paths, proc>>

\* render_single_image returned Err: failed.fetch_add(1)
JobRenderErr(j) ==
    /\ JobAt(j, "queued")
    /\ render' = [render EXCEPT !.failed = @ + 1, !.pc[j] = "failed", !.outcome[j] = "err",
                                !.local[j].wrote = render.failed + 1]
    /\ UNCHANGED <<viewer, workers, loads, chan, hist, cache_hist, bump, paths, proc>>

\* mutant: every failure stores its message
record_last_error(first, j) == j

\* if first.is_none() { *first = Some(message of job j) }
record_first_error(first, j) == IF first = 0 THEN j ELSE first

\* first_error.lock(): keep the message if none is kept yet
JobFirstError(j) ==
    /\ JobAt(j, "failed")
    /\ render' = [render EXCEPT !.first_error = record_first_error(@, j),
                                !.error_order = Append(@, j),
                                !.pc[j] = "counted"]
    /\ UNCHANGED <<viewer, workers, loads, chan, hist, cache_hist, bump, paths, proc>>

\* done_now = done.fetch_add(1) + 1
JobDone(j) ==
    /\ JobAt(j, "counted")
    /\ render' = [render EXCEPT !.done = @ + 1,
                                !.local[j].done_now = render.done + 1,
                                !.pc[j] = "done"]
    /\ UNCHANGED <<viewer, workers, loads, chan, hist, cache_hist, bump, paths, proc>>

\* mutant: a load that is ordered after every fetch_add made so far
load_latest(seen, latest) == {latest}

\* AtomicUsize::load(Ordering::Relaxed): any value of the counter from the
\* newest one the calling job is ordered after up to the latest
load_relaxed(seen, latest) == seen..latest

\* the newest value of ok that job j is ordered after: its own fetch_add
seen_ok(r, j) == IF r.outcome[j] = "ok" THEN r.local[j].wrote ELSE 0

\* the newest value of failed that job j is ordered after: its own fetch_add
\* and those of the jobs that held the first_error lock before it
seen_failed(r, j) ==
    LET at == Position(r.error_order, j)
        before == {r.local[r.error_order[i]].wrote : i \in 1..at}
    IN IF r.outcome[j] # "err" THEN 0
       ELSE CHOOSE m \in before \cup {r.local[j].wrote} :
                \A o \in before \cup {r.local[j].wrote} : o <= m

\* ok_now = ok.load(Ordering::Relaxed)
JobLoadOk(j) ==
    /\ JobAt(j, "done")
    /\ \E ok_now \in load_relaxed(seen_ok(render, j), render.ok) :
          render' = [render EXCEPT !.local[j].ok_now = ok_now, !.pc[j] = "ok_loaded"]
    /\ UNCHANGED <<viewer, workers, loads, chan, hist, cache_hist, bump, paths, proc>>

\* failed_now = failed.load(Ordering::Relaxed)
JobLoadFailed(j) ==
    /\ JobAt(j, "ok_loaded")
    /\ \E failed_now \in load_relaxed(seen_failed(render, j), render.failed) :
          render' = [render EXCEPT !.local[j].failed_now = failed_now,
                                  !.pc[j] = "failed_loaded"]
    /\ UNCHANGED <<viewer, workers, loads, chan, hist, cache_hist, bump, paths, proc>>

\* tx.send(RenderEvent::Progress {..})
JobSendProgress(j) ==
    /\ JobAt(j, "failed_loaded")
    /\ render' = [Send(render, [type |-> "Progress",
                                done |-> render.local[j].done_now,
                                total |-> render.total,
                                ok |-> render.local[j].ok_now,
                                failed |-> render.local[j].failed_now,
                                current |-> j,
                                first_error |-> 0])
                     EXCEPT !.pc[j] = "sent"]
    /\ UNCHANGED <<viewer, workers, loads, chan, hist, cache_hist, bump, paths, proc>>

\* mutant: the thread goes on as soon as the done counter has reached the total
for_each_returned_on_count(r) == r.done = r.total

\* for_each returns when the closure has returned for every job
for_each_returned(r) == \A j \in 1..r.total : r.pc[j] = "sent"

\* after for_each: tx.send(RenderEvent::Finished {..}), then the thread ends
ThreadFinish ==
    /\ render.thread = "running"
    /\ for_each_returned(render)
    /\ render' = [Send(render, [type |-> "Finished",
                                done |-> 0,
                                total |-> render.total,
                                ok |-> render.ok,
                                failed |-> render.failed,
                                current |-> 0,
                                first_error |-> render.first_error])
                     EXCEPT !.thread = "finished"]
    /\ UNCHANGED <<viewer, workers, loads, chan, hist, cache_hist, bump, paths, proc>>

poll_event(r, event) ==
    IF event.type = "Progress"
    THEN [r EXCEPT !.render_done = event.done,
                   !.render_total = event.total,
                   !.render_ok = event.ok,
                   !.render_failed = event.failed,
                   !.render_current = event.current]
    ELSE [r EXCEPT !.render_in_progress = FALSE,
                   !.render_done = event.total,
                   !.render_total = event.total,
                   !.render_ok = event.ok,
                   !.render_failed = event.failed,
                   !.render_status = IF event.failed = 0 THEN "Rendered"
                                     ELSE "Rendered, failed",
                   !.render_rx = FALSE]

RECURSIVE poll_events(_, _)
poll_events(r, events) ==
    IF events = << >> THEN r
    ELSE poll_events(poll_event(r, Head(events)), Tail(events))

poll_render_events(r) ==
    IF ~r.render_rx THEN r
    ELSE [poll_events(r, r.events) EXCEPT !.events = << >>]

PollRenderEvents ==
    /\ render.render_rx
    /\ render' = poll_render_events(render)
    /\ render' # render
    /\ UNCHANGED <<viewer, workers, loads, chan, hist, cache_hist, bump, paths, proc>>

InitRender ==
    /\ viewer = ViewerNew
    /\ workers = {}
    /\ loads = {}
    /\ chan = << >>
    /\ hist = HistNew
    /\ cache_hist = CacheHistIdle
    /\ bump = BumpIdle
    /\ paths = PathsIdle
    /\ render = RenderIdle
    /\ proc = ProcIdle

NextRender ==
    \/ StartRenderJob
    \/ \E j \in 1..MaxRenderJobs : JobRenderOk(j)
    \/ \E j \in 1..MaxRenderJobs : JobRenderErr(j)
    \/ \E j \in 1..MaxRenderJobs : JobFirstError(j)
    \/ \E j \in 1..MaxRenderJobs : JobDone(j)
    \/ \E j \in 1..MaxRenderJobs : JobLoadOk(j)
    \/ \E j \in 1..MaxRenderJobs : JobLoadFailed(j)
    \/ \E j \in 1..MaxRenderJobs : JobSendProgress(j)
    \/ ThreadFinish
    \/ PollRenderEvents

SpecRender == InitRender /\ [][NextRender]_vars

\* C10: a batch of N jobs sends one Progress event per job and never more
\* than N; Finished is sent once, after all N Progress events, as the last
\* event of the batch, with total = N and ok + failed = N
C10_ProgressThenFinished ==
    LET sent == render.sent
        progress == {i \in 1..Len(sent) : sent[i].type = "Progress"}
        finished == {i \in 1..Len(sent) : sent[i].type = "Finished"}
    IN /\ Cardinality(progress) <= render.total
       /\ \A i, k \in progress : i # k => sent[i].current # sent[k].current
       /\ Cardinality(finished) <= 1
       /\ render.thread = "finished" => Cardinality(finished) = 1
       /\ \A f \in finished :
             /\ f = Len(sent)
             /\ Cardinality(progress) = render.total
             /\ sent[f].total = render.total
             /\ sent[f].ok + sent[f].failed = render.total

\* a batch of two or more jobs, one rendered and one failed, has sent Finished
C10_Witness ==
    /\ render.thread = "finished"
    /\ render.total >= 2
    /\ Len(render.sent) = render.total + 1
    /\ render.sent[Len(render.sent)].type = "Finished"
    /\ render.sent[Len(render.sent)].ok >= 1
    /\ render.sent[Len(render.sent)].failed >= 1

\* C11: the done values of the Progress events of a batch, in the order in
\* which they are sent and so received, are strictly increasing: 1, 2, ..
C11_ProgressDoneIncreasing ==
    LET sent == render.sent
        progress == {i \in 1..Len(sent) : sent[i].type = "Progress"}
    IN \A i, k \in progress : i < k => sent[i].done < sent[k].done

\* C12: each failing job adds exactly one to failed and nothing to ok, each
\* other job is still executed, and the first_error of Finished is the
\* message of the failure that was recorded first, present exactly when
\* failed > 0
C12_FailuresCounted ==
    LET sent == render.sent
        jobs == 1..render.total
        finished == {i \in 1..Len(sent) : sent[i].type = "Finished"}
        first == IF render.error_order = << >> THEN 0 ELSE Head(render.error_order)
    IN /\ render.failed = Cardinality({j \in jobs : render.outcome[j] = "err"})
       /\ render.ok = Cardinality({j \in jobs : render.outcome[j] = "ok"})
       /\ render.first_error = first
       /\ \A f \in finished :
             /\ \A j \in jobs : render.outcome[j] # "none"
             /\ sent[f].failed = Cardinality({j \in jobs : render.outcome[j] = "err"})
             /\ sent[f].ok = Cardinality({j \in jobs : render.outcome[j] = "ok"})
             /\ sent[f].first_error = first
             /\ sent[f].first_error # 0 <=> sent[f].failed > 0

\* two failures whose messages were recorded in the reverse of the task
\* order, a third job possibly rendered: Finished carries the earlier one
C12_Witness ==
    /\ render.thread = "finished"
    /\ Len(render.error_order) >= 2
    /\ render.error_order[1] = 2
    /\ render.error_order[2] = 1
    /\ render.sent[Len(render.sent)].first_error = 2
    /\ render.sent[Len(render.sent)].failed = 2

\* C13: a call of start_render_job with an empty output path, with resize
\* enabled and long edge 0, or with no open image changes the status message
\* and nothing else: no thread, no directory, the same render_in_progress,
\* counters and receiver
C13_InvalidStartOnlyStatus ==
    [][(render'.starts # render.starts /\ render'.invalid_call) =>
          /\ render'.render_status \in {"Output path is empty",
                                        "Resize long edge must be greater than 0",
                                        "No open images to render"}
          /\ render' = [render EXCEPT !.render_status = render'.render_status,
                                      !.starts = render'.starts,
                                      !.invalid_call = TRUE]]_vars

\* an invalid call after a finished batch whose counters are still shown
C13_Witness ==
    /\ render.invalid_call
    /\ render.starts = 2
    /\ render.thread = "finished"
    /\ ~render.render_in_progress
    /\ render.render_done > 0
    /\ render.render_status = "No open images to render"

(***************************************************************************)
(* Image processing.  An image is its width, its height, px giving for     *)
(* each coordinate <<x, y>> the source pixel shown there (BLACK where the  *)
(* shader writes opaque black), ops, the value-changing stages applied to   *)
(* it in order, and trace, every stage that ran on it.  The numeric fields of an EditState are in thousandths  *)
(* (0.001 is 1, the straighten threshold 0.01 is 10); a crop rectangle is  *)
(* in parts of CropDenominator, so that (crop.x * w) as u32 is an integer  *)
(* division.                                                               *)
(***************************************************************************)
Coords(w, h) == (0..(w - 1)) \X (0..(h - 1))

Image(w, h, px, ops) == [w |-> w, h |-> h, px |-> px, ops |-> ops, trace |-> << >>]

\* an image whose pixels are pairwise different
SourceImage(w, h) == Image(w, h, [c \in Coords(w, h) |-> c[2] * w + c[1] + 1], << >>)

Abs(v) == IF v < 0 THEN 0 - v ELSE v

NoCrop == [some |-> FALSE, x |-> 0, y |-> 0, width |-> 0, height |-> 0]
NoGrad == [some |-> FALSE, exposure |-> 0, top |-> 0, bottom |-> 0]

\* EditState::default
DefaultState ==
    [rotate |-> 0, flip_h |-> FALSE, flip_v |-> FALSE, crop |-> NoCrop,
     straighten |-> 0, keystone |-> 0, exposure |-> 0, temperature |-> 0,
     graduated_filter |-> NoGrad, sharpness |-> 0]

Stage(img, name) == [img EXCEPT !.ops = Append(@, name), !.trace = Append(@, name)]

\* out is what the stage name made of img
Geometry(img, out, name) == [out EXCEPT !.trace = Append(img.trace, name)]

\* image crate: out(ox, oy) = in(oy, H - 1 - ox)
rotate90(img) ==
    Image(img.h, img.w, [c \in Coords(img.h, img.w) |-> img.px[<<c[2], img.h - 1 - c[1]>>]],
          img.ops)

rotate180(img) ==
    Image(img.w, img.h,
          [c \in Coords(img.w, img.h) |-> img.px[<<img.w - 1 - c[1], img.h - 1 - c[2]>>]],
          img.ops)

\* image crate: out(ox, oy) = in(W - 1 - oy, ox)
rotate270(img) ==
    Image(img.h, img.w, [c \in Coords(img.h, img.w) |-> img.px[<<img.w - 1 - c[2], c[1]>>]],
          img.ops)

fliph(img) ==
    Image(img.w, img.h, [c \in Coords(img.w, img.h) |-> img.px[<<img.w - 1 - c[1], c[2]>>]],
          img.ops)

flipv(img) ==
    Image(img.w, img.h, [c \in Coords(img.w, img.h) |-> img.px[<<c[1], img.h - 1 - c[2]>>]],
          img.ops)

crop_imm(img, cx, cy, cw, ch) ==
    Image(cw, ch, [c \in Coords(cw, ch) |-> img.px[<<cx + c[1], cy + c[2]>>]], img.ops)

\* (crop.x * w) as u32 and its companions, for an image of w by h
crop_pixels(crop, w, h) ==
    LET cx == (crop.x * w) \div CropDenominator
        cy == (crop.y * h) \div CropDenominator
    IN [cx |-> cx, cy |-> cy,
        cw |-> Min((crop.width * w) \div CropDenominator, w - cx),
        ch |-> Min((crop.height * h) \div CropDenominator, h - cy)]

exposure_apply(img, state) ==
    IF Abs(state.exposure) < 1 THEN img ELSE Stage(img, "exposure")

color_apply(img, state) ==
    IF Abs(state.temperature) < 1 THEN img ELSE Stage(img, "color")

filters_apply(img, state) ==
    LET grad == state.graduated_filter
    IN IF ~grad.some THEN img
       ELSE IF Abs(grad.exposure) < 1 THEN img
       ELSE IF grad.bottom <= grad.top THEN img
       ELSE Stage(img, "graduated_filter")

sharpness_apply(img, state) ==
    IF state.sharpness < 1 THEN img ELSE Stage(img, "sharpness")

transform_apply_crop_first(img, state) ==
    LET o1 == IF Abs(state.straighten) > 10 THEN Stage(img, "straighten") ELSE img
        o2 == IF Abs(state.keystone) > 1 THEN Stage(o1, "keystone") ELSE o1
        c == crop_pixels(state.crop, o2.w, o2.h)
        o3 == IF state.crop.some /\ c.cw > 0 /\ c.ch > 0
              THEN Geometry(o2, crop_imm(o2, c.cx, c.cy, c.cw, c.ch), "crop") ELSE o2
        rot == state.rotate % 360
        o4 == IF rot = 90 THEN Geometry(o3, rotate90(o3), "rotate")
              ELSE IF rot = 180 THEN Geometry(o3, rotate180(o3), "rotate")
              ELSE IF rot = 270 THEN Geometry(o3, rotate270(o3), "rotate") ELSE o3
        o5 == IF state.flip_h THEN Geometry(o4, fliph(o4), "flip_h") ELSE o4
        o6 == IF state.flip_v THEN Geometry(o5, flipv(o5), "flip_v") ELSE o5
    IN filters_apply(color_apply(exposure_apply(o6, state), state), state)

\* processing::transform::apply, the CPU pipeline
transform_apply(img, state) ==
    LET o1 == IF Abs(state.straighten) > 10 THEN Stage(img, "straighten") ELSE img
        o2 == IF Abs(state.keystone) > 1 THEN Stage(o1, "keystone") ELSE o1
        rot == state.rotate % 360
        o3 == IF rot = 90 THEN Geometry(o2, rotate90(o2), "rotate")
              ELSE IF rot = 180 THEN Geometry(o2, rotate180(o2), "rotate")
              ELSE IF rot = 270 THEN Geometry(o2, rotate270(o2), "rotate") ELSE o2
        o4 == IF state.flip_h THEN Geometry(o3, fliph(o3), "flip_h") ELSE o3
        o5 == IF state.flip_v THEN Geometry(o4, flipv(o4), "flip_v") ELSE o4
        c == crop_pixels(state.crop, o5.w, o5.h)
        o6 == IF state.crop.some /\ c.cw > 0 /\ c.ch > 0
              THEN Geometry(o5, crop_imm(o5, c.cx, c.cy, c.cw, c.ch), "crop") ELSE o5
    IN filters_apply(color_apply(exposure_apply(o6, state), state), state)

(***************************************************************************)
(* processing::gpu_pipeline.  ctx is the process-wide GPU context: whether *)
(* it could be created and its max_texture_dimension_2d.  fault is what    *)
(* the device does to this call: "none", "recv_error" (the map callback's  *)
(* channel is closed), "map_error" or "invalid_buffer".                    *)
(***************************************************************************)
GpuFaults == {"none", "recv_error", "map_error", "invalid_buffer"}

is_gpu_state_supported(state) == TRUE

has_geometry(state) ==
    \/ state.rotate % 360 # 0
    \/ state.flip_h
    \/ state.flip_v
    \/ state.crop.some
    \/ Abs(state.straighten) > 10
    \/ Abs(state.keystone) > STATE_EPS

grad_active(state) ==
    /\ state.graduated_filter.some
    /\ Abs(state.graduated_filter.exposure) > STATE_EPS
    /\ state.graduated_filter.bottom > state.graduated_filter.top

has_gpu_adjustments_always(state) == TRUE

has_gpu_adjustments(state) ==
    \/ Abs(state.exposure) > STATE_EPS
    \/ Abs(state.temperature) > STATE_EPS
    \/ grad_active(state)
    \/ state.sharpness > STATE_EPS
    \/ has_geometry(state)

max_texture_dimension(ctx) == IF ctx.available THEN ctx.limit ELSE 0

compute_geometry_output_dims(state, src_w, src_h) ==
    LET rot == state.rotate % 360
        w == IF rot = 90 \/ rot = 270 THEN src_h ELSE src_w
        h == IF rot = 90 \/ rot = 270 THEN src_w ELSE src_h
        c == crop_pixels(state.crop, w, h)
        cropped == state.crop.some /\ c.cw > 0 /\ c.ch > 0
    IN [w |-> Max(IF cropped THEN c.cw ELSE w, 1),
        h |-> Max(IF cropped THEN c.ch ELSE h, 1)]

\* GEOMETRY_SHADER_SRC main for one invocation <<gx, gy>>; coordinates are
\* doubled so that the pixel centre gx + 0.5 is the integer 2 * gx + 1
geometry_shader(src, state, gx, gy) ==
    LET rot == state.rotate % 360
        post_rot_w == IF rot = 90 \/ rot = 270 THEN src.h ELSE src.w
        post_rot_h == IF rot = 90 \/ rot = 270 THEN src.w ELSE src.h
        c == crop_pixels(state.crop, post_rot_w, post_rot_h)
        crop_x == IF state.crop.some THEN c.cx ELSE 0
        crop_y == IF state.crop.some THEN c.cy ELSE 0
        px0 == 2 * (gx + crop_x) + 1
        py0 == 2 * (gy + crop_y) + 1
        px == IF state.flip_h THEN 2 * post_rot_w - px0 ELSE px0
        py == IF state.flip_v THEN 2 * post_rot_h - py0 ELSE py0
        rx2 == IF rot = 90 THEN py
               ELSE IF rot = 180 THEN 2 * src.w - px
               ELSE IF rot = 270 THEN 2 * src.w - py
               ELSE px
        ry2 == IF rot = 90 THEN 2 * src.h - px
               ELSE IF rot = 180 THEN 2 * src.h - py
               ELSE IF rot = 270 THEN px
               ELSE py
        ix == (rx2 - 1) \div 2
        iy == (ry2 - 1) \div 2
    IN IF ix < 0 \/ ix >= src.w \/ iy < 0 \/ iy >= src.h THEN BLACK
       ELSE src.px[<<ix, iy>>]

\* the geometry pass of apply_gpu
geometry_pass(src, state) ==
    LET out == compute_geometry_output_dims(state, src.w, src.h)
        o1 == Image(out.w, out.h,
                    [c \in Coords(out.w, out.h) |-> geometry_shader(src, state, c[1], c[2])],
                    src.ops)
        o2 == IF Abs(state.straighten) > 10 THEN Stage(o1, "straighten") ELSE o1
    IN IF Abs(state.keystone) > STATE_EPS THEN Stage(o2, "keystone") ELSE o2

\* the colour pass: every adjustment whose parameter is not neutral
color_pass(img, state) ==
    LET o1 == IF state.exposure # 0 THEN Stage(img, "exposure") ELSE img
        o2 == IF state.temperature # 0 THEN Stage(o1, "color") ELSE o1
    IN IF grad_active(state) THEN Stage(o2, "graduated_filter") ELSE o2

\* the blur_h and blur_v_usm passes
sharpness_pass(img, state) ==
    IF state.sharpness > STATE_EPS THEN Stage(img, "sharpness") ELSE img

GpuNone(reports) == [some |-> FALSE, img |-> Image(0, 0, << >>, << >>), reports |-> reports]
GpuSome(img) == [some |-> TRUE, img |-> img, reports |-> 0]

\* reports is the number of calls of report_gpu_fallback_once
apply_gpu(src, state, ctx, fault) ==
    IF ~ctx.available THEN GpuNone(1)
    ELSE IF fault = "recv_error" THEN GpuNone(0)
    ELSE IF fault = "map_error" THEN GpuNone(1)
    ELSE IF fault = "invalid_buffer" THEN GpuNone(1)
    ELSE LET o1 == IF has_geometry(state) THEN geometry_pass(src, state) ELSE src
         IN GpuSome(sharpness_pass(color_pass(o1, state), state))

try_apply(img, state, ctx, fault) ==
    IF ~is_gpu_state_supported(state) THEN GpuNone(0)
    ELSE IF ~has_gpu_adjustments(state) THEN GpuSome(img)
    ELSE IF img.w = 0 \/ img.h = 0 THEN GpuSome(img)
    ELSE IF max_texture_dimension(ctx) > 0
            /\ (img.w > max_texture_dimension(ctx) \/ img.h > max_texture_dimension(ctx))
    THEN GpuNone(0)
    ELSE apply_gpu(img, state, ctx, fault)

(***************************************************************************)
(* processing::gpu_spike, the hook viewer.rs passes to its preview         *)
(* processing: geometry stays on the CPU, so such states yield None.       *)
(***************************************************************************)
gpu_spike_is_gpu_state_supported(state) == ~has_geometry(state)

gpu_spike_has_gpu_adjustments(state) ==
    \/ Abs(state.exposure) > STATE_EPS
    \/ Abs(state.temperature) > STATE_EPS
    \/ grad_active(state)

gpu_spike_apply_gpu(src, state, ctx, fault) ==
    IF ~ctx.available THEN GpuNone(1)
    ELSE IF fault = "recv_error" THEN GpuNone(0)
    ELSE IF fault = "map_error" THEN GpuNone(1)
    ELSE IF fault = "invalid_buffer" THEN GpuNone(1)
    ELSE GpuSome(color_pass(src, state))

gpu_spike_try_apply(img, state, ctx, fault) ==
    IF ~gpu_spike_is_gpu_state_supported(state) THEN GpuNone(0)
    ELSE IF ~gpu_spike_has_gpu_adjustments(state) THEN GpuSome(img)
    ELSE IF img.w = 0 \/ img.h = 0 THEN GpuSome(img)
    ELSE gpu_spike_apply_gpu(img, state, ctx, fault)

(***************************************************************************)
(* Backend selection.  A result is the image or the error an operation     *)
(* returned, with the number of times it called the GPU path.              *)
(***************************************************************************)
Backends == {"Cpu", "Auto", "Gpu"}

NoImage == Image(0, 0, << >>, << >>)
OkResult(img, gpu_calls) == [done |-> TRUE, err |-> FALSE, img |-> img, gpu_calls |-> gpu_calls]
ErrResult(gpu_calls) == [done |-> TRUE, err |-> TRUE, img |-> NoImage, gpu_calls |-> gpu_calls]
NoResult == [done |-> FALSE, err |-> FALSE, img |-> NoImage, gpu_calls |-> 0]

effective_preview_backend(requested, allow_debug_cpu_fallback) ==
    IF requested = "Cpu" /\ ~allow_debug_cpu_fallback THEN "Gpu" ELSE requested

\* TRUE when the process exits with status 2
enforce_runtime_gpu_policy(ctx, allow_debug_cpu_fallback) ==
    ~(ctx.available \/ allow_debug_cpu_fallback)

\* gpu_apply is what the hook returns if it is called
process_preview_with_backend_and_gpu_hook_always_gpu(source, state, preview_backend, gpu_apply) ==
    IF gpu_apply.some THEN OkResult(gpu_apply.img, 1)
    ELSE OkResult(transform_apply(source, state), 1)

process_preview_with_backend_and_gpu_hook(source, state, preview_backend, gpu_apply) ==
    IF preview_backend = "Cpu" THEN OkResult(transform_apply(source, state), 0)
    ELSE IF gpu_apply.some THEN OkResult(gpu_apply.img, 1)
    ELSE OkResult(transform_apply(source, state), 1)

process_preview_with_backend(source, state, preview_backend, ctx, fault) ==
    process_preview_with_backend_and_gpu_hook(source, state, preview_backend,
                                              gpu_spike_try_apply(source, state, ctx, fault))

\* bin/perf_probe.rs
apply_preview_backend(preview, state, backend, allow_cpu_fallback, ctx, fault) ==
    IF backend = "Cpu"
    THEN IF allow_cpu_fallback THEN OkResult(transform_apply(preview, state), 0)
         ELSE ErrResult(0)
    ELSE LET gpu == try_apply(preview, state, ctx, fault)
         IN IF gpu.some THEN OkResult(gpu.img, 1)
            ELSE IF allow_cpu_fallback THEN OkResult(transform_apply(preview, state), 1)
            ELSE ErrResult(1)

GpuContexts == {[available |-> FALSE, limit |-> 0]}
               \cup {[available |-> TRUE, limit |-> l] : l \in {1, MaxDim}}

HalfCrop == [some |-> TRUE, x |-> 0, y |-> 0, width |-> 1, height |-> CropDenominator]

\* the edit states the backends are run on
LowerGrad == [some |-> TRUE, exposure |-> 0 - 800, top |-> 500, bottom |-> 1000]

PipelineStates ==
    {[DefaultState EXCEPT !.rotate = r, !.crop = c, !.exposure = e, !.sharpness = s,
                          !.graduated_filter = g] :
        r \in {0, 90}, c \in {NoCrop, HalfCrop}, e \in {0, 350}, s \in {0, 500},
        g \in {NoGrad, LowerGrad}}

SourceImages == {SourceImage(w, h) : w \in 0..MaxDim, h \in 0..MaxDim}

InitBackend ==
    /\ viewer = ViewerNew
    /\ workers = {}
    /\ loads = {}
    /\ chan = << >>
    /\ hist = HistNew
    /\ cache_hist = CacheHistIdle
    /\ bump = BumpIdle
    /\ paths = PathsIdle
    /\ render = RenderIdle
    /\ \E requested \in Backends, allow \in BOOLEAN, ctx \in GpuContexts,
          fault \in GpuFaults, state \in PipelineStates, img \in SourceImages :
          proc = [op |-> "backend", requested |-> requested, allow |-> allow, ctx |-> ctx,
                  fault |-> fault, state |-> state, img |-> img,
                  started |-> FALSE, exited |-> FALSE, effective |-> requested,
                  hook |-> GpuNone(0), gpu |-> GpuNone(0),
                  preview |-> NoResult, probe |-> NoResult]

\* main(): resolve the backend, then enforce the GPU policy
Startup ==
    /\ proc.op = "backend"
    /\ ~proc.started
    /\ proc' = [proc EXCEPT !.started = TRUE,
                            !.effective = effective_preview_backend(proc.requested, proc.allow),
                            !.exited = enforce_runtime_gpu_policy(proc.ctx, proc.allow)]
    /\ UNCHANGED <<viewer, workers, loads, chan, hist, cache_hist, bump, paths, render>>

\* the viewer's worker processes one preview with the backend main() chose
ProcessPreview ==
    /\ proc.op = "backend"
    /\ proc.started
    /\ ~proc.exited
    /\ ~proc.preview.done
    /\ proc' = [proc EXCEPT !.hook = gpu_spike_try_apply(proc.img, proc.state, proc.ctx, proc.fault),
                            !.preview = process_preview_with_backend(proc.img, proc.state,
                                            proc.effective, proc.ctx, proc.fault)]
    /\ UNCHANGED <<viewer, workers, loads, chan, hist, cache_hist, bump, paths, render>>

\* perf_probe processes one preview with the backend its command line names
ApplyPreviewBackend ==
    /\ proc.op = "backend"
    /\ ~proc.probe.done
    /\ proc' = [proc EXCEPT !.gpu = try_apply(proc.img, proc.state, proc.ctx, proc.fault),
                            !.probe = apply_preview_backend(proc.img, proc.state, proc.requested,
                                            proc.allow, proc.ctx, proc.fault)]
    /\ UNCHANGED <<viewer, workers, loads, chan, hist, cache_hist, bump, paths, render>>

NextBackend ==
    \/ Startup
    \/ ProcessPreview
    \/ ApplyPreviewBackend

SpecBackend == InitBackend /\ [][NextBackend]_vars

\* C14: backend selection follows the debug-flag policy: a requested Cpu is
\* coerced to Gpu when the flag is unset and honored when it is set; an Auto or
\* Gpu operation whose GPU path yields no image returns an error when the flag
\* is unset and the CPU pipeline's result when it is set.
C14_DebugFlagPolicy ==
    proc.op = "backend" =>
        /\ (proc.started /\ proc.requested = "Cpu") =>
               proc.effective = (IF proc.allow THEN "Cpu" ELSE "Gpu")
        /\ (proc.preview.done /\ proc.effective # "Cpu" /\ ~proc.hook.some) =>
               IF proc.allow
               THEN ~proc.preview.err /\ proc.preview.img = transform_apply(proc.img, proc.state)
               ELSE proc.preview.err
        /\ (proc.probe.done /\ proc.requested # "Cpu" /\ ~proc.gpu.some) =>
               IF proc.allow
               THEN ~proc.probe.err /\ proc.probe.img = transform_apply(proc.img, proc.state)
               ELSE proc.probe.err

\* C15: in preview processing, backend Cpu never calls the GPU path and
\* returns the CPU pipeline's output; Auto and Gpu call the GPU path once,
\* return its image when it yields one, and the CPU pipeline's output otherwise.
C15_PreviewBackendDispatch ==
    (proc.op = "backend" /\ proc.preview.done) =>
        /\ ~proc.preview.err
        /\ proc.effective = "Cpu" =>
               /\ proc.preview.gpu_calls = 0
               /\ proc.preview.img = transform_apply(proc.img, proc.state)
        /\ proc.effective # "Cpu" =>
               /\ proc.preview.gpu_calls = 1
               /\ proc.hook.some => proc.preview.img = proc.hook.img
               /\ ~proc.hook.some => proc.preview.img = transform_apply(proc.img, proc.state)

\* an Auto preview whose GPU path failed on the device and that shows the
\* CPU pipeline's exposure stage instead
C15_Witness ==
    /\ proc.op = "backend"
    /\ proc.preview.done
    /\ proc.effective = "Auto"
    /\ proc.fault = "map_error"
    /\ ~proc.hook.some
    /\ proc.preview.gpu_calls = 1
    /\ proc.img.w > 0
    /\ proc.preview.img.ops = <<"exposure">>

(***************************************************************************)
(* The one-shot fallback diagnostic.  Worker threads call try_apply; the   *)
(* GPU context and GPU_FALLBACK_REPORTED are process-wide.  order lists    *)
(* the failed calls in the order they failed: whether the call reached     *)
(* report_gpu_fallback_once and whether it was the one to print.           *)
(***************************************************************************)
Threads == 1..NumThreads

AdjustedState == [DefaultState EXCEPT !.exposure = 350]

InitFallback ==
    /\ viewer = ViewerNew
    /\ workers = {}
    /\ loads = {}
    /\ chan = << >>
    /\ hist = HistNew
    /\ cache_hist = CacheHistIdle
    /\ bump = BumpIdle
    /\ paths = PathsIdle
    /\ render = RenderIdle
    /\ \E ctx \in GpuContexts :
          proc = [op |-> "fallback", ctx |-> ctx, reported |-> FALSE, diagnostics |-> 0,
                  pc |-> [t \in Threads |-> "idle"], calls |-> 0, order |-> << >>]

\* GPU_FALLBACK_REPORTED.swap(true, Relaxed): the new flag and whether to print
report_gpu_fallback_once(reported) == [reported |-> TRUE, print |-> ~reported]

\* thread t runs try_apply up to the swap of report_gpu_fallback_once
TryApply(t) ==
    /\ proc.op = "fallback"
    /\ proc.pc[t] = "idle"
    /\ proc.calls < MaxGpuCalls
    /\ \E w \in 1..MaxDim, fault \in GpuFaults :
          LET r == try_apply(SourceImage(w, 1), AdjustedState, proc.ctx, fault)
              swap == report_gpu_fallback_once(proc.reported)
              reports == ~r.some /\ r.reports > 0
              prints == reports /\ swap.print
          IN proc' = [proc EXCEPT
                 !.calls = @ + 1,
                 !.reported = IF reports THEN swap.reported ELSE @,
                 !.pc[t] = IF prints THEN "print" ELSE "idle",
                 !.order = IF r.some THEN @
                           ELSE Append(@, [thread |-> t, reports |-> reports, prints |-> prints])]
    /\ UNCHANGED <<viewer, workers, loads, chan, hist, cache_hist, bump, paths, render>>

\* the eprintln! of the thread that found the flag unset
PrintDiagnostic(t) ==
    /\ proc.op = "fallback"
    /\ proc.pc[t] = "print"
    /\ proc' = [proc EXCEPT !.diagnostics = @ + 1, !.pc[t] = "idle"]
    /\ UNCHANGED <<viewer, workers, loads, chan, hist, cache_hist, bump, paths, render>>

NextFallback ==
    \/ \E t \in Threads : TryApply(t)
    \/ \E t \in Threads : PrintDiagnostic(t)

SpecFallback == InitFallback /\ [][NextFallback]_vars

\* C16: once any GPU failures have happened and no thread is still printing,
\* the fallback diagnostic has been emitted exactly once, by the first
\* failure, and every later failure was silent.
C16_FallbackReportedOnce ==
    (/\ proc.op = "fallback"
     /\ proc.order # << >>
     /\ \A t \in Threads : proc.pc[t] = "idle") =>
        /\ proc.diagnostics = 1
        /\ proc.order[1].prints
        /\ \A i \in 2..Len(proc.order) : ~proc.order[i].prints

(***************************************************************************)
(* thumbnail.rs: opening an image for preview.  A path is the sequence of  *)
(* the characters of its file name.                                        *)
(***************************************************************************)
RAW_EXTS == {<<"r", "a", "f">>, <<"d", "n", "g">>, <<"n", "e", "f">>,
             <<"c", "r", "2">>, <<"a", "r", "w">>}

NameChars == {"r", "A", "f", "j", "."}

FileNames == UNION {[1..n -> NameChars] : n \in 0..MaxNameLen}

SubSeqFrom(s, i) == [k \in 1..(Len(s) - i + 1) |-> s[i + k - 1]]

\* u8::to_ascii_lowercase on the characters of NameChars
to_ascii_lowercase(c) == IF c = "A" THEN "a" ELSE c

eq_ignore_ascii_case(a, b) ==
    /\ Len(a) = Len(b)
    /\ \A i \in 1..Len(a) : to_ascii_lowercase(a[i]) = to_ascii_lowercase(b[i])

\* Path::extension: the part after the last dot of the file name; none when
\* there is no dot, or the only dot is the first character
extension(path) ==
    LET dots == {i \in 1..Len(path) : path[i] = "."}
        last == IF dots = {} THEN 0 ELSE CHOOSE i \in dots : \A j \in dots : j <= i
    IN IF last <= 1 \/ path = <<".", ".">> THEN [some |-> FALSE, ext |-> << >>]
       ELSE [some |-> TRUE, ext |-> SubSeqFrom(path, last + 1)]

has_extension_case_sensitive(path, exts) ==
    /\ extension(path).some
    /\ \E known \in exts : extension(path).ext = known

has_extension(path, exts) ==
    /\ extension(path).some
    /\ \E known \in exts : eq_ignore_ascii_case(extension(path).ext, known)

is_raw_image(path) == has_extension(path, RAW_EXTS)

\* open_embedded is what the probe returns if called ("image", "none",
\* "error"), open_full what the full decoder returns ("image", "error");
\* calls lists the hooks in the order they were called
open_image_for_preview_with_hooks(path, open_embedded, open_full) ==
    IF is_raw_image(path) /\ open_embedded = "image"
    THEN [ok |-> TRUE, source |-> "Embedded", calls |-> <<"embedded">>]
    ELSE [ok |-> open_full = "image",
          source |-> IF open_full = "image" THEN "FullDevelop" ELSE "none",
          calls |-> IF is_raw_image(path) THEN <<"embedded", "full">> ELSE <<"full">>]

InitOpen ==
    /\ viewer = ViewerNew
    /\ workers = {}
    /\ loads = {}
    /\ chan = << >>
    /\ hist = HistNew
    /\ cache_hist = CacheHistIdle
    /\ bump = BumpIdle
    /\ paths = PathsIdle
    /\ render = RenderIdle
    /\ \E path \in FileNames :
          proc = [op |-> "open", path |-> path, opened |-> FALSE, open_embedded |-> "none",
                  open_full |-> "error", out |-> [ok |-> FALSE, source |-> "none", calls |-> << >>]]

OpenImageForPreview ==
    /\ proc.op = "open"
    /\ ~proc.opened
    /\ \E open_embedded \in {"image", "none", "error"}, open_full \in {"image", "error"} :
          proc' = [proc EXCEPT !.opened = TRUE,
                               !.open_embedded = open_embedded,
                               !.open_full = open_full,
                               !.out = open_image_for_preview_with_hooks(proc.path, open_embedded, open_full)]
    /\ UNCHANGED <<viewer, workers, loads, chan, hist, cache_hist, bump, paths, render>>

NextOpen == OpenImageForPreview

SpecOpen == InitOpen /\ [][NextOpen]_vars

\* the file name ends in a dot followed by "raf" in any letter case, after a
\* non-empty stem
EndsInRawExtension(path) ==
    /\ Len(path) >= 5
    /\ path[Len(path) - 3] = "."
    /\ path[Len(path) - 2] \in {"r", "R"}
    /\ path[Len(path) - 1] \in {"a", "A"}
    /\ path[Len(path)] \in {"f", "F"}

\* C17: a preview open of a path with a RAW extension, in any letter case,
\* calls the embedded-preview probe exactly once, first, and the full decoder
\* only if the probe returned no image or an error; for any other path the
\* probe is never called and the full decoder is called exactly once.
C17_ProbeThenFullDecode ==
    (proc.op = "open" /\ proc.opened) =>
        IF EndsInRawExtension(proc.path)
        THEN IF proc.open_embedded = "image"
             THEN proc.out.calls = <<"embedded">> /\ proc.out.source = "Embedded"
             ELSE proc.out.calls = <<"embedded", "full">>
        ELSE proc.out.calls = <<"full">>

\* a RAW name in mixed case whose probe failed and whose full decode worked
C17_Witness ==
    /\ proc.op = "open"
    /\ proc.opened
    /\ proc.path = <<"j", ".", "r", "A", "f">>
    /\ proc.open_embedded = "error"
    /\ proc.out.calls = <<"embedded", "full">>
    /\ proc.out.source = "FullDevelop"

(***************************************************************************)
(* The two pipelines side by side: the CPU pipeline and the GPU pipeline   *)
(* are each run once on the same image and edit state.                     *)
(***************************************************************************)
PipelineNew(img, state, ctx) ==
    [op |-> "pipeline", img |-> img, state |-> state, ctx |-> ctx,
     cpu_done |-> FALSE, cpu |-> NoImage,
     gpu_done |-> FALSE, fault |-> "none", gpu |-> GpuNone(0)]

InitPipeline ==
    /\ viewer = ViewerNew
    /\ workers = {}
    /\ loads = {}
    /\ chan = << >>
    /\ hist = HistNew
    /\ cache_hist = CacheHistIdle
    /\ bump = BumpIdle
    /\ paths = PathsIdle
    /\ render = RenderIdle
    /\ \E img \in SourceImages, state \in PipelineStates, ctx \in GpuContexts :
          proc = PipelineNew(img, state, ctx)

\* processing::transform::apply(&img, &state)
CpuApply ==
    /\ proc.op = "pipeline"
    /\ ~proc.cpu_done
    /\ proc' = [proc EXCEPT !.cpu_done = TRUE, !.cpu = transform_apply(proc.img, proc.state)]
    /\ UNCHANGED <<viewer, workers, loads, chan, hist, cache_hist, bump, paths, render>>

\* processing::gpu_pipeline::try_apply(&img, &state)
GpuTryApply ==
    /\ proc.op = "pipeline"
    /\ ~proc.gpu_done
    /\ \E fault \in GpuFaults :
          proc' = [proc EXCEPT !.gpu_done = TRUE, !.fault = fault,
                               !.gpu = try_apply(proc.img, proc.state, proc.ctx, fault)]
    /\ UNCHANGED <<viewer, workers, loads, chan, hist, cache_hist, bump, paths, render>>

NextPipeline ==
    \/ CpuApply
    \/ GpuTryApply

SpecPipeline == InitPipeline /\ [][NextPipeline]_vars

\* C18: when sharpness exceeds 1e-3 the CPU pipeline runs the unsharp-mask
\* stage as its last stage, so that on an image of at least one pixel the CPU
\* pipeline and a GPU run that yields an image have executed the same stages.
C18_CpuSharpensLast ==
    (proc.op = "pipeline" /\ proc.img.w > 0 /\ proc.img.h > 0) =>
        /\ (proc.cpu_done /\ proc.state.sharpness > 1) =>
               /\ proc.cpu.ops # << >>
               /\ proc.cpu.ops[Len(proc.cpu.ops)] = "sharpness"
        /\ (proc.cpu_done /\ proc.gpu_done /\ proc.gpu.some) =>
               proc.cpu.ops = proc.gpu.img.ops

\* C19: the default EditState is the identity on both pipelines: each
\* returns the source image, and the GPU pipeline does so whether or not a
\* GPU context exists.
C19_DefaultStateIdentity ==
    (proc.op = "pipeline" /\ proc.state = DefaultState) =>
        /\ proc.cpu_done => proc.cpu = proc.img
        /\ proc.gpu_done => (proc.gpu.some /\ proc.gpu.img = proc.img)

\* both pipelines have run on a default state and a non-empty image in a
\* process without a GPU context
C19_Witness ==
    /\ proc.op = "pipeline"
    /\ proc.state = DefaultState
    /\ proc.cpu_done
    /\ proc.gpu_done
    /\ ~proc.ctx.available
    /\ proc.img.w = MaxDim
    /\ proc.img.h > 0
    /\ proc.gpu.some

(***************************************************************************)
(* Geometry only: orthogonal rotation, flips and crop, on a process with a *)
(* GPU context whose texture limit admits every image.                     *)
(***************************************************************************)
CropParts == 0..CropDenominator

Crops == {NoCrop} \cup {[some |-> TRUE, x |-> x, y |-> y, width |-> cw, height |-> ch] :
                           x \in CropParts, y \in CropParts, cw \in CropParts, ch \in CropParts}

GeometryStates ==
    {[DefaultState EXCEPT !.rotate = r, !.flip_h = fh, !.flip_v = fv, !.crop = c] :
        r \in {0, 90, 180, 270}, fh \in BOOLEAN, fv \in BOOLEAN, c \in Crops}

InitGeometry ==
    /\ viewer = ViewerNew
    /\ workers = {}
    /\ loads = {}
    /\ chan = << >>
    /\ hist = HistNew
    /\ cache_hist = CacheHistIdle
    /\ bump = BumpIdle
    /\ paths = PathsIdle
    /\ render = RenderIdle
    /\ \E w \in 1..MaxDim, h \in 1..MaxDim, state \in GeometryStates :
          proc = PipelineNew(SourceImage(w, h), state, [available |-> TRUE, limit |-> MaxDim])

SpecGeometry == InitGeometry /\ [][NextPipeline]_vars

\* C20: for an edit state of orthogonal rotation, flips and crop only, a GPU
\* run that yields an image gives the output dimensions of the CPU pipeline
\* and shows at every output pixel the source pixel the CPU pipeline shows.
C20_GeometryParity ==
    (proc.op = "pipeline" /\ proc.cpu_done /\ proc.gpu_done /\ proc.gpu.some) =>
        /\ proc.gpu.img.w = proc.cpu.w
        /\ proc.gpu.img.h = proc.cpu.h
        /\ proc.gpu.img.px = proc.cpu.px

(***************************************************************************)
(* state.rs: the sidecar file.  The file is the sequence of its bytes; one *)
(* byte stands for one JSON token.  std::fs::write opens the file with     *)
(* truncation and then writes the buffer in one or more write calls; a     *)
(* load by another thread or process, or a crash, can fall between them.   *)
(***************************************************************************)
SidecarStates == {[exposure |-> e, rotate |-> r] : e \in {0, 350}, r \in {0, 90}}

NoSidecar == [some |-> FALSE, state |-> [exposure |-> 0, rotate |-> 0]]
SomeSidecar(state) == [some |-> TRUE, state |-> state]

\* serde_json::to_string_pretty(self)
to_string_pretty(state) == <<"{", state.exposure, state.rotate, "}">>

\* serde_json::from_str(&json).ok()
from_str(json) ==
    IF Len(json) = 4 /\ json[1] = "{" /\ json[4] = "}"
       /\ [exposure |-> json[2], rotate |-> json[3]] \in SidecarStates
    THEN SomeSidecar([exposure |-> json[2], rotate |-> json[3]])
    ELSE NoSidecar

\* EditState::load: read_to_string(sidecar).ok()? then from_str
load(file) == IF file.exists THEN from_str(file.bytes) ELSE NoSidecar

InitSidecar ==
    /\ viewer = ViewerNew
    /\ workers = {}
    /\ loads = {}
    /\ chan = << >>
    /\ hist = HistNew
    /\ cache_hist = CacheHistIdle
    /\ bump = BumpIdle
    /\ paths = PathsIdle
    /\ render = RenderIdle
    /\ \E file \in {[exists |-> FALSE, bytes |-> << >>]}
                   \cup {[exists |-> TRUE, bytes |-> to_string_pretty(s)] : s \in SidecarStates} :
          proc = [op |-> "sidecar", dir |-> file.exists, file |-> file, pc |-> "idle",
                  json |-> << >>, previous |-> load(file), saving |-> load(file),
                  saves |-> 0, loaded |-> FALSE, during_save |-> FALSE, observed |-> NoSidecar]

\* EditState::save up to File::create: create_dir_all, serialise, open with
\* truncation
SaveOpen ==
    /\ proc.op = "sidecar"
    /\ proc.pc = "idle"
    /\ proc.saves < MaxSaves
    /\ \E state \in SidecarStates :
          proc' = [proc EXCEPT !.dir = TRUE,
                               !.file = [exists |-> TRUE, bytes |-> << >>],
                               !.pc = "writing",
                               !.json = to_string_pretty(state),
                               !.previous = load(proc.file),
                               !.saving = SomeSidecar(state),
                               !.saves = @ + 1,
                               !.loaded = FALSE]
    /\ UNCHANGED <<viewer, workers, loads, chan, hist, cache_hist, bump, paths, render>>

\* one write call of write_all: the kernel takes n of the remaining bytes
SaveWrite ==
    /\ proc.op = "sidecar"
    /\ proc.pc = "writing"
    /\ Len(proc.file.bytes) < Len(proc.json)
    /\ \E n \in 1..(Len(proc.json) - Len(proc.file.bytes)) :
          proc' = [proc EXCEPT !.file.bytes = SubSeq(proc.json, 1, Len(proc.file.bytes) + n)]
    /\ UNCHANGED <<viewer, workers, loads, chan, hist, cache_hist, bump, paths, render>>

\* write_all has written the whole buffer: save returns Ok(())
SaveReturn ==
    /\ proc.op = "sidecar"
    /\ proc.pc = "writing"
    /\ Len(proc.file.bytes) = Len(proc.json)
    /\ proc' = [proc EXCEPT !.pc = "idle"]
    /\ UNCHANGED <<viewer, workers, loads, chan, hist, cache_hist, bump, paths, render>>

\* the process dies in the middle of a save
SaveCrash ==
    /\ proc.op = "sidecar"
    /\ proc.pc = "writing"
    /\ proc' = [proc EXCEPT !.pc = "crashed"]
    /\ UNCHANGED <<viewer, workers, loads, chan, hist, cache_hist, bump, paths, render>>

\* EditState::load by a browser thread, or by the next run after a crash
SidecarLoad ==
    /\ proc.op = "sidecar"
    /\ proc' = [proc EXCEPT !.loaded = TRUE,
                            !.during_save = proc.pc # "idle",
                            !.observed = load(proc.file)]
    /\ UNCHANGED <<viewer, workers, loads, chan, hist, cache_hist, bump, paths, render>>

NextSidecar ==
    \/ SaveOpen
    \/ SaveWrite
    \/ SaveReturn
    \/ SaveCrash
    \/ SidecarLoad

SpecSidecar == InitSidecar /\ [][NextSidecar]_vars

\* C21: a load that runs while a save is under way, or after a crash in the
\* middle of a save, observes either the complete contents the sidecar had
\* before the save or the complete contents being saved.
C21_SaveAtomic ==
    (proc.op = "sidecar" /\ proc.loaded) =>
        proc.observed \in {proc.previous, proc.saving}

(***************************************************************************)
(* The stage order of the CPU pipeline: edit states that switch each of    *)
(* its stages on or off.                                                   *)
(***************************************************************************)
OrderStates ==
    {[DefaultState EXCEPT !.straighten = st, !.keystone = k, !.rotate = r, !.flip_h = fh,
                          !.flip_v = fv, !.crop = c, !.exposure = e, !.temperature = t,
                          !.graduated_filter = g] :
        st \in {0, 2000}, k \in {0, 100}, r \in {0, 90}, fh \in BOOLEAN, fv \in BOOLEAN,
        c \in {NoCrop, HalfCrop}, e \in {0, 350}, t \in {0, 100}, g \in {NoGrad, LowerGrad}}

InitOrder ==
    /\ viewer = ViewerNew
    /\ workers = {}
    /\ loads = {}
    /\ chan = << >>
    /\ hist = HistNew
    /\ cache_hist = CacheHistIdle
    /\ bump = BumpIdle
    /\ paths = PathsIdle
    /\ render = RenderIdle
    /\ \E w \in 1..MaxDim, h \in 1..MaxDim, state \in OrderStates :
          proc = PipelineNew(SourceImage(w, h), state, [available |-> TRUE, limit |-> MaxDim])

SpecOrder == InitOrder /\ [][NextPipeline]_vars

(***************************************************************************)
(* Adjustment magnitudes around the activation thresholds, in thousandths: *)
(* one step below, at and one step above 1e-3, and the same around the     *)
(* 1e-2 of straighten.                                                     *)
(***************************************************************************)
Magnitudes == {STATE_EPS - 1, STATE_EPS, STATE_EPS + 1}

StraightenMagnitudes == {0, 9, 10, 11}

ThresholdGrads ==
    {NoGrad} \cup {[some |-> TRUE, exposure |-> e, top |-> 500, bottom |-> b] :
                      e \in {STATE_EPS, STATE_EPS + 1}, b \in {500, 1000}}

ThresholdStates ==
    {[DefaultState EXCEPT !.straighten = st, !.keystone = k, !.exposure = e,
                          !.temperature = t, !.graduated_filter = g, !.sharpness = s] :
        st \in StraightenMagnitudes, k \in Magnitudes,
        e \in Magnitudes \cup {0 - STATE_EPS}, t \in Magnitudes,
        g \in ThresholdGrads, s \in {0, STATE_EPS + 1}}

InitThreshold ==
    /\ viewer = ViewerNew
    /\ workers = {}
    /\ loads = {}
    /\ chan = << >>
    /\ hist = HistNew
    /\ cache_hist = CacheHistIdle
    /\ bump = BumpIdle
    /\ paths = PathsIdle
    /\ render = RenderIdle
    /\ \E w \in 1..MaxDim, h \in 1..MaxDim, state \in ThresholdStates :
          proc = PipelineNew(SourceImage(w, h), state, [available |-> TRUE, limit |-> MaxDim])

SpecThreshold == InitThreshold /\ [][NextPipeline]_vars

\* C30: GPU try_apply returns the input unchanged, without a kernel
\* dispatch, exactly when the CPU pipeline skips every stage, for magnitudes
\* below, at and above the activation thresholds
C30_NoOpAgreement ==
    (proc.op = "pipeline" /\ proc.cpu_done /\ proc.gpu_done)
    => ((proc.gpu.some /\ proc.gpu.img = proc.img) <=> (proc.cpu = proc.img))

\* C25: the CPU pipeline runs its stages in the order straighten, keystone,
\* orthogonal rotate, flip horizontal, flip vertical, crop, exposure, colour,
\* graduated filter, none twice and none out of this order, and the crop is
\* measured on the dimensions the image has after the rotation.
C25_CpuStageOrder ==
    (proc.op = "pipeline" /\ proc.cpu_done) =>
        LET order == <<"straighten", "keystone", "rotate", "flip_h", "flip_v", "crop",
                       "exposure", "color", "graduated_filter">>
            index(name) == CHOOSE i \in 1..Len(order) : order[i] = name
            trace == proc.cpu.trace
            rot == proc.state.rotate % 360
            rw == IF rot = 90 \/ rot = 270 THEN proc.img.h ELSE proc.img.w
            rh == IF rot = 90 \/ rot = 270 THEN proc.img.w ELSE proc.img.h
        IN /\ \A i \in 1..Len(trace) : \E k \in 1..Len(order) : order[k] = trace[i]
           /\ \A i \in 1..Len(trace), j \in 1..Len(trace) :
                  i < j => index(trace[i]) < index(trace[j])
           /\ (\E i \in 1..Len(trace) : trace[i] = "crop") =>
                  /\ proc.cpu.w = Min((proc.state.crop.width * rw) \div CropDenominator, rw)
                  /\ proc.cpu.h = Min((proc.state.crop.height * rh) \div CropDenominator, rh)

\* every stage ran on an image that is higher than wide, whose crop selects
\* pixels only when it is measured after the rotation
C25_Witness ==
    /\ proc.op = "pipeline"
    /\ proc.cpu_done
    /\ Len(proc.cpu.trace) = 9
    /\ proc.img.w = 1
    /\ proc.img.h = MaxDim

(***************************************************************************)
(* Properties of the preview scheduler                                     *)
(***************************************************************************)
Quiescent ==
    /\ viewer.preview.some
    /\ ~viewer.needs_process
    /\ ~viewer.needs_final_process
    /\ ~viewer.processing

\* C1: a result whose EditState the owner mutated while the job was in flight
\* is never uploaded as the output texture
C1_StaleResultIgnored == "stale_upload" \notin hist.events

\* C2: once needs_process and needs_final_process are false and no job is in
\* flight, the published texture is the Final render of the current EditState
\* of the current source
C2_QuiescentTextureCurrent ==
    Quiescent =>
        /\ viewer.texture.some
        /\ viewer.texture.data = build_preview_cache_key(viewer, "Final")

C2_Witness ==
    /\ Quiescent
    /\ hist.edit_seq = MaxEdits
    /\ viewer.edit_state # DefaultEditState
    /\ "upload" \in hist.events

C4_InteractiveRateLimit == "interactive_soon" \notin hist.events

\* C4 amended: two consecutive Interactive job submissions with no Final pass
\* and no preview load between them are at least INTERACTIVE_REFRESH apart
C4_InteractiveRateLimitUnreset == "interactive_soon_unreset" \notin hist.events

C4_Witness == "interactive_spaced" \in hist.events

\* C5: no Processed result of a job submitted before a set_image with a
\* different path is uploaded as the output texture on receipt
C5_OldImageResultIgnored == "old_upload" \notin hist.events

C5_Witness == "old_discard" \in hist.events

\* C22: every Processed message that is received is inserted into the preview
\* cache under its key; it becomes the output texture when its generation
\* stamp equals requested_generation at the moment of receipt, and leaves the
\* texture as it was otherwise.
C22_ReceiptCachedAndStampChecked ==
    \A i \in 1..Len(hist.receipts) :
        LET r == hist.receipts[i]
        IN /\ r.cached
           /\ IF r.stamp_match
              THEN r.texture_after = [some |-> TRUE, data |-> r.key]
              ELSE r.texture_after = r.texture_before

\* a frame received a result whose stamp was out of date while the texture
\* showed another render: the result is cached and the texture stays
C22_Witness ==
    \E i \in 1..Len(hist.receipts) :
        /\ ~hist.receipts[i].stamp_match
        /\ hist.receipts[i].cached
        /\ hist.receipts[i].texture_before.some
        /\ hist.receipts[i].texture_before.data # hist.receipts[i].key

\* C23: a pass of trigger_process that finds its cache key in the cache
\* publishes the cached buffer as the texture, starts no worker and leaves no
\* generation in flight; one that misses increments requested_generation,
\* records the new value as in flight and starts exactly one worker stamped
\* with it.
C23_HitPublishesMissDispatches ==
    \A i \in 1..Len(hist.submits) :
        LET s == hist.submits[i]
        IN IF s.hit
           THEN /\ s.texture_after = [some |-> TRUE, data |-> s.key]
                /\ s.started = {}
                /\ s.in_flight_after = None
           ELSE /\ s.requested_after = wrapping_add(s.requested_before)
                /\ s.in_flight_after = s.requested_after
                /\ s.started = {s.requested_after}

\* a frame whose job was served from the cache
C23_Witness ==
    \E i \in 1..Len(hist.submits) :
        /\ hist.submits[i].hit
        /\ hist.submits[i].started = {}
        /\ hist.submits[i].texture_after.some

\* C24: an adaptive reload is started only when at least 300 ms have passed
\* since the last zoom change, the needed cap exceeds the current preview cap
\* and no load or reload is in flight; starting it raises the preview cap and
\* bumps requested_generation, and a processing result that was in flight at
\* that moment is never uploaded when it arrives.
C24_AdaptiveReload ==
    /\ \A i \in 1..Len(hist.reloads) :
          LET r == hist.reloads[i]
          IN /\ r.since_zoom # None
             /\ r.since_zoom >= 300
             /\ r.needed_max > r.cap_before
             /\ ~r.busy_before
             /\ r.cap_after = r.needed_max
             /\ r.cap_after > r.cap_before
             /\ r.requested_after = wrapping_add(r.requested_before)
    /\ "superseded_upload" \notin hist.events

\* the result of a job that was in flight when a reload started has arrived
\* and was discarded
C24_Witness == "superseded_discard" \in hist.events


\* C26: a scheduling step that finds a loaded preview, pending work and no
\* job in flight submits a job or leaves a repaint scheduled no later than the
\* nearer of the debounce deadline and the interactive-refresh deadline
C26_WakeupByNearerDeadline ==
    LET t == hist.tick
        due == {t.final_due, t.interactive_due} \ {None}
    IN (t.pending /\ ~t.submitted)
       => /\ t.wakeup # None
          /\ \A d \in due : (\A e \in due : d <= e) => t.wakeup <= d

\* the consequence drawn from it rests on this: pending work on a loaded
\* preview always has a repaint scheduled or a thread or message on its way
C26_PendingWorkHasWakeup ==
    (viewer.preview.some /\ (viewer.needs_process \/ viewer.needs_final_process))
    => \/ hist.wakeup # None
       \/ workers # {}
       \/ loads # {}
       \/ chan # << >>


\* the jobs of trigger_process whose Processed message drain has not received:
\* threads still running and messages still in the channel
Outstanding ==
    Cardinality(workers)
    + Cardinality({i \in 1..Len(chan) : chan[i].type = "Processed"})

\* C27: at most one preview-processing worker is outstanding at any time,
\* whatever set_image calls, edits, frames and result arrivals have happened
C27_OneWorkerOutstanding == Outstanding <= 1


\* C28: the LRU order sequence holds exactly the keys of the cache map, each
\* exactly once, after any stores, lookup hits and evictions
C28_LruMatchesCache ==
    LET lru == viewer.preview_cache_lru
    IN /\ {lru[i] : i \in 1..Len(lru)} = viewer.preview_cache
       /\ \A i, j \in 1..Len(lru) : lru[i] = lru[j] => i = j

\* a store into the full cache has evicted the oldest key, then a lookup hit
\* has moved a key from the middle of the order to its end
C28_Witness ==
    LET lru == viewer.preview_cache_lru
    IN /\ cache_hist.op = "lookup"
       /\ cache_hist.key = CacheKey(2)
       /\ Len(lru) = PREVIEW_CACHE_CAPACITY
       /\ lru[Len(lru)] = CacheKey(2)
       /\ lru[Len(lru) - 1] = CacheKey(NumCacheKeys)
       /\ CacheKey(1) \notin viewer.preview_cache


\* C29: every Progress event of a batch has done <= ok + failed <= total,
\* and no two Progress events carry the same done value; once all are sent
\* the done values are 1..total
C29_ProgressCountsConsistent ==
    LET sent == render.sent
        progress == {i \in 1..Len(sent) : sent[i].type = "Progress"}
    IN /\ \A i \in progress :
             /\ sent[i].done <= sent[i].ok + sent[i].failed
             /\ sent[i].ok + sent[i].failed <= sent[i].total
       /\ \A i, k \in progress : sent[i].done = sent[k].done => i = k
       /\ \A i \in progress : sent[i].done \in 1..render.total
       /\ Cardinality(progress) = render.total
             => {sent[i].done : i \in progress} = 1..render.total

====
